---- MODULE Spec2Model ----
(***************************************************************************)
(* Model of the MNIST MLP inference visualiser (src/unnamed/part_000):     *)
(* application start-up (initApp), the DrawingGrid with its frame-         *)
(* coalesced change notification, MLPNetwork construction and forward      *)
(* pass, softmax and the PredictionChart, and NetworkVisualizer: build,    *)
(* update and resize.                                                      *)
(*                                                                         *)
(* Spec is the running program (events of the page).  FnSpec looks at one  *)
(* call of forward, updateNetwork, findImportantConnections,               *)
(* computeLayerPositions or t on arguments drawn from bounded sets.        *)
(* I18nSpec is the i18n module (src/unnamed/part_001): initI18n and        *)
(* switchLanguage calls with their fetches settling in any order.          *)
(*                                                                         *)
(* Numbers.  Pixel intensities, biases and activations are integers in     *)
(* hundredths (0.55 is 55); weights and the normalisation std are plain    *)
(* integers, so weight * activation stays in hundredths.  The three IEEE   *)
(* specials a forward pass can produce are the sentinels NaN, PInf, NInf.  *)
(* Float32 rounding of finite values is not modelled.                      *)
(* JavaScript arrays are 0-based; the sequences here are 1-based.          *)
(***************************************************************************)
EXTENDS Integers, Sequences, FiniteSets, TLC

\* ------------------------------------------------------------------ bounds

\* rows * cols of the DrawingGrid (28 * 28 in initApp), scaled down.
NumCells == 2
\* Total number of pointer events that reach paintCell in one run.
MaxPaints == 3
\* CONFIG.maxConnectionsPerNeuron (20 in the source), scaled down.
MaxConnectionsPerNeuron == 2

\* ------------------------------------------------------- IEEE-like numbers

NaN == 999999
PInf == 888888
NInf == -888888

IsNaN(x) == x = NaN
IsInf(x) == x = PInf \/ x = NInf
IsFinite(x) == ~IsNaN(x) /\ ~IsInf(x)

Sign(x) == IF x = PInf THEN 1 ELSE IF x = NInf THEN -1
           ELSE IF x > 0 THEN 1 ELSE IF x < 0 THEN -1 ELSE 0

Signed(s) == IF s > 0 THEN PInf ELSE NInf

\* a + b
FAdd(a, b) ==
  IF IsNaN(a) \/ IsNaN(b) THEN NaN
  ELSE IF IsInf(a) /\ IsInf(b) THEN (IF a = b THEN a ELSE NaN)
  ELSE IF IsInf(a) THEN a
  ELSE IF IsInf(b) THEN b
  ELSE a + b

\* a * b
FMul(a, b) ==
  IF IsNaN(a) \/ IsNaN(b) THEN NaN
  ELSE IF IsInf(a) \/ IsInf(b)
       THEN (IF Sign(a) * Sign(b) = 0 THEN NaN ELSE Signed(Sign(a) * Sign(b)))
  ELSE a * b

\* a / b for the divisors the definitions use (0, or an exact divisor)
FDiv(a, b) ==
  IF IsNaN(a) \/ IsNaN(b) THEN NaN
  ELSE IF b = 0 THEN (IF Sign(a) = 0 THEN NaN ELSE Signed(Sign(a)))
  ELSE IF IsInf(a) THEN Signed(Sign(a) * Sign(b))
  ELSE IF a >= 0 THEN a \div b ELSE -((-a) \div b)

\* a > b as JavaScript evaluates it: false as soon as one side is NaN
FGt(a, b) ==
  IF IsNaN(a) \/ IsNaN(b) THEN FALSE
  ELSE IF a = b THEN FALSE
  ELSE IF a = PInf \/ b = NInf THEN TRUE
  ELSE IF a = NInf \/ b = PInf THEN FALSE
  ELSE a > b

\* Math.abs
FAbs(x) == IF IsNaN(x) THEN NaN ELSE IF IsInf(x) THEN PInf
           ELSE IF x < 0 THEN -x ELSE x

\* variant of the read that is off by one
AtShifted(arr, i) == IF i + 1 >= 0 /\ i + 1 < Len(arr) THEN arr[i + 2] ELSE NaN

\* array[i] with a 0-based index i: undefined (NaN in arithmetic) out of range
At(arr, i) == IF i >= 0 /\ i < Len(arr) THEN arr[i + 1] ELSE NaN

\* ------------------------------------------------------ network definitions

Cells == 0 .. (NumCells - 1)

RowOf(n, v) == [i \in 1 .. n |-> v]
\* 1 at 0-based column k, 0 elsewhere
UnitRow(n, k) == [i \in 1 .. n |-> IF i = k + 1 THEN 1 ELSE 0]

DefaultNormalization == [mean |-> 0, std |-> 1]

\* One layer of the JSON document.  activation "absent" is a missing field.
LayerDef(act, w, b) == [activation |-> act, weights |-> w, biases |-> b]

\* The "network" object of the JSON document.  hasLayers / hasArchitecture /
\* hasNormalization say whether the optional field is present.
NetDef(name, hasL, ls, hasA, arch, hasN, norm) ==
  [id |-> name, hasLayers |-> hasL, layers |-> ls,
   hasArchitecture |-> hasA, architecture |-> arch,
   hasNormalization |-> hasN, normalization |-> norm]

\* single ReLU layer, input width matching the grid, everything derived
DefRelu ==
  NetDef("relu1", TRUE,
         << LayerDef("absent", << RowOf(NumCells, 1), RowOf(NumCells, -1) >>, << -60, 20 >>) >>,
         FALSE, << >>, FALSE, DefaultNormalization)

\* identity layer then ReLU layer, explicit architecture and normalisation
DefTwoLayer ==
  NetDef("two", TRUE,
         << LayerDef("identity", << UnitRow(NumCells, 0), RowOf(NumCells, -1) >>, << 0, 4 >>),
            LayerDef("relu", << << 1, 1 >>, << -1, 2 >> >>, << 2, 0 >>) >>,
         TRUE, << NumCells, 2, 2 >>, TRUE, [mean |-> 50, std |-> 5])

\* layers: []
DefEmptyLayers ==
  NetDef("empty", TRUE, << >>, FALSE, << >>, FALSE, DefaultNormalization)

\* no layers field at all
DefNoLayers ==
  NetDef("nolayers", FALSE, << >>, FALSE, << >>, FALSE, DefaultNormalization)

\* layer 0 rows one shorter than the input
DefShortRow ==
  NetDef("shortrow", TRUE,
         << LayerDef("relu", << RowOf(NumCells - 1, 1) >>, << 0 >>) >>,
         FALSE, << >>, FALSE, DefaultNormalization)

\* layer 0 rows one longer than the input
DefLongRow ==
  NetDef("longrow", TRUE,
         << LayerDef("relu", << RowOf(NumCells + 1, 1) >>, << 0 >>) >>,
         FALSE, << >>, FALSE, DefaultNormalization)

\* layer 1 rows shorter than layer 0's output width
DefMidShort ==
  NetDef("midshort", TRUE,
         << LayerDef("identity", << RowOf(NumCells, 1), RowOf(NumCells, 2) >>, << 0, 0 >>),
            LayerDef("identity", << << 1 >> >>, << 0 >>) >>,
         FALSE, << >>, FALSE, DefaultNormalization)

\* layer 1 rows longer than layer 0's output width
DefMidLong ==
  NetDef("midlong", TRUE,
         << LayerDef("identity", << RowOf(NumCells, 1) >>, << 0 >>),
            LayerDef("identity", << << 1, 3 >> >>, << 0 >>) >>,
         FALSE, << >>, FALSE, DefaultNormalization)

\* explicit architecture one entry short
DefArchShort ==
  NetDef("archshort", TRUE,
         << LayerDef("relu", << RowOf(NumCells, 1) >>, << 0 >>) >>,
         TRUE, << NumCells >>, FALSE, DefaultNormalization)

\* explicit architecture one entry long
DefArchLong ==
  NetDef("archlong", TRUE,
         << LayerDef("relu", << RowOf(NumCells, 1) >>, << 0 >>) >>,
         TRUE, << NumCells, 1, 1 >>, FALSE, DefaultNormalization)

\* more biases than weight rows
DefBiasLong ==
  NetDef("biaslong", TRUE,
         << LayerDef("relu", << RowOf(NumCells, 1) >>, << 0, 0 >>) >>,
         FALSE, << >>, FALSE, DefaultNormalization)

\* std = 0
DefStdZero ==
  NetDef("stdzero", TRUE,
         << LayerDef("relu", << UnitRow(NumCells, 0), RowOf(NumCells, -1) >>, << 0, 0 >>) >>,
         FALSE, << >>, TRUE, [mean |-> 0, std |-> 0])

\* every weight 0
DefZeroWeights ==
  NetDef("zeroweights", TRUE,
         << LayerDef("relu", << RowOf(NumCells, 0) >>, << 0 >>) >>,
         FALSE, << >>, FALSE, DefaultNormalization)

NetworkDefinitions ==
  { DefRelu, DefTwoLayer, DefEmptyLayers, DefNoLayers, DefShortRow, DefLongRow,
    DefMidShort, DefMidLong, DefArchShort, DefArchLong, DefBiasLong, DefStdZero,
    DefZeroWeights }

\* What fetch + response.json() can hand to initApp.
FetchOutcomes ==
  { [kind |-> "rejected", network |-> DefNoLayers],    \* fetch() rejects
    [kind |-> "notOk", network |-> DefNoLayers],       \* !response.ok
    [kind |-> "noNetwork", network |-> DefNoLayers] }  \* document without "network"
  \cup { [kind |-> "ok", network |-> d] : d \in NetworkDefinitions }

\* ----------------------------------------------------------------- MLPNetwork

\* variant of the constructor's guard that only tests for a missing field
LayersMissingOnly(definition) == ~definition.hasLayers

\* !definition.layers?.length
LayersMissingOrEmpty(definition) ==
  ~definition.hasLayers \/ Len(definition.layers) = 0

\* MLPNetwork.computeArchitecture
ComputeArchitecture(layers) ==
  IF Len(layers) = 0 THEN << >>
  ELSE << (IF Len(layers[1].weights) > 0 THEN Len(layers[1].weights[1]) ELSE 0) >>
       \o [i \in 1 .. Len(layers) |-> Len(layers[i].biases)]

\* an explicit architecture is copied as it is
ExplicitArchitecture(definition) == definition.architecture

\* new MLPNetwork(definition): threw, or the object's fields
MLPNetworkNew(definition) ==
  IF LayersMissingOrEmpty(definition)
  THEN [threw |-> TRUE, normalization |-> DefaultNormalization,
        architecture |-> << >>, layers |-> << >>]
  ELSE [threw |-> FALSE,
        normalization |-> IF definition.hasNormalization
                          THEN definition.normalization ELSE DefaultNormalization,
        architecture |-> IF definition.hasArchitecture
                         THEN ExplicitArchitecture(definition)
                         ELSE ComputeArchitecture(definition.layers),
        layers |-> [i \in 1 .. Len(definition.layers) |->
                     [activation |-> IF definition.layers[i].activation = "absent"
                                     THEN "relu" ELSE definition.layers[i].activation,
                      weights |-> definition.layers[i].weights,
                      biases |-> definition.layers[i].biases]]]

NoMlp == MLPNetworkNew(DefNoLayers)

\* ------------------------------------------------------- MLPNetwork.forward

\* Typed arrays live in a heap (a sequence of vectors); a reference is an
\* index into it, so that two names for one Float32Array are one reference.
Alloc(heap, vec) == [heap |-> Append(heap, vec), ref |-> Len(heap) + 1]

\* input[i] = (pixels[i] - mean) / std
Normalize(pixels, normalization) ==
  [i \in 1 .. Len(pixels) |->
     FDiv(FAdd(pixels[i], -normalization.mean), normalization.std)]

\* the inner loop over source, from 0-based index `source` on
RECURSIVE DotFrom(_, _, _, _)
DotFrom(sum, weights, current, source) ==
  IF source >= Len(weights) THEN sum
  ELSE DotFrom(FAdd(sum, FMul(weights[source + 1], At(current, source))),
               weights, current, source + 1)

\* linear[neuron] for every neuron < outSize
Linear(layer, current) ==
  [n \in 1 .. Len(layer.biases) |->
     DotFrom(layer.biases[n], layer.weights[n], current, 0)]

\* layer.weights[neuron] is undefined for some neuron < outSize:
\* reading weights.length throws a TypeError
LinearThrows(layer) == Len(layer.biases) > Len(layer.weights)

\* variant of the ReLU branch that copies the linear value
ReluElementUnclamped(x) == x

\* linear[i] > 0 ? linear[i] : 0
ReluElement(x) == IF FGt(x, 0) THEN x ELSE 0

\* variant of the identity branch that keeps the linear array itself
IdentityAliased(heap, linearRef) == [heap |-> heap, ref |-> linearRef]

\* activated = linear.slice(): a fresh array with the same contents
IdentityActivated(heap, linearRef) == Alloc(heap, heap[linearRef])

\* the activation branch of the layer loop
Activated(heap, layer, linearRef) ==
  IF layer.activation = "relu"
  THEN Alloc(heap, [i \in 1 .. Len(layer.biases) |-> ReluElement(heap[linearRef][i])])
  ELSE IdentityActivated(heap, linearRef)

\* variant that starts the activations list empty
InitialActivationsEmpty(inputRef) == << >>

\* const activations = [input]
InitialActivations(inputRef) == << inputRef >>

\* preActivations.push(linear)
PushPreActivation(preActivations, linearRef) == Append(preActivations, linearRef)

\* one pass of the layer loop once linear and activated exist
LayerDone(acc, linearRef, act) ==
  [threw |-> FALSE, heap |-> act.heap, current |-> act.ref,
   activations |-> Append(acc.activations, act.ref),
   preActivations |-> PushPreActivation(acc.preActivations, linearRef)]

LayerAfterLinear(acc, layer, lin) ==
  LayerDone(acc, lin.ref, Activated(lin.heap, layer, lin.ref))

\* the body of the layer loop
LayerStep(acc, layer) ==
  IF LinearThrows(layer) THEN [acc EXCEPT !.threw = TRUE]
  ELSE LayerAfterLinear(acc, layer, Alloc(acc.heap, Linear(layer, acc.heap[acc.current])))

\* the loop over this.layers, from layer index k (1-based) on
RECURSIVE ForwardLayers(_, _, _)
ForwardLayers(layers, k, acc) ==
  IF acc.threw \/ k > Len(layers) THEN acc
  ELSE ForwardLayers(layers, k + 1, LayerStep(acc, layers[k]))

\* the state of the pass before the first layer
ForwardStart(input) ==
  [threw |-> FALSE, heap |-> input.heap, current |-> input.ref,
   activations |-> InitialActivations(input.ref),
   preActivations |-> << >>]

\* return { normalizedInput: activations[0], activations, preActivations }
ForwardResult(done) ==
  [threw |-> done.threw, heap |-> done.heap,
   normalizedInput |-> IF Len(done.activations) > 0 THEN done.activations[1] ELSE 0,
   activations |-> done.activations,
   preActivations |-> done.preActivations]

\* mlp.forward(pixels): threw, or the result {normalizedInput, activations,
\* preActivations} as references into heap
Forward(mlp, pixels) ==
  ForwardResult(ForwardLayers(mlp.layers, 1,
                  ForwardStart(Alloc(<< >>, Normalize(pixels, mlp.normalization)))))

NoForward ==
  [threw |-> TRUE, heap |-> << >>, normalizedInput |-> 0,
   activations |-> << >>, preActivations |-> << >>]

\* the vectors a result's references stand for
Vectors(result, refs) == [i \in 1 .. Len(refs) |-> result.heap[refs[i]]]

\* ------------------------------------------------- NetworkVisualizer: build

\* CONFIG spacings, in hundredths
LayerSpacing == 550
InputSpacing == 32
HiddenSpacing == 90
\* the input layer is laid out 28 x 28 when it has 28 * 28 neurons
InputImageSide == 28

\* Math.ceil(Math.sqrt(n))
CeilSqrt(n) == CHOOSE c \in 0 .. n : c * c >= n /\ (c = 0 \/ (c - 1) * (c - 1) < n)

\* variant of the row count that rounds down
FloorDiv(n, cols) == n \div cols

\* Math.ceil(n / cols), cols > 0
CeilDiv(n, cols) == (n + cols - 1) \div cols

Min(a, b) == IF a <= b THEN a ELSE b

\* `count` positions in row-major order over `cols` columns; coordinates in
\* units of 1/200
GridPositions(count, layerX2, spacing, cols, rows) ==
  [i \in 1 .. count |->
     [x |-> layerX2,
      y |-> (rows - 1) * spacing - 2 * ((i - 1) \div cols) * spacing,
      z |-> 2 * ((i - 1) % cols) * spacing - (cols - 1) * spacing]]

\* cols of the input layer
InputCols(neuronCount) ==
  IF neuronCount = InputImageSide * InputImageSide
  THEN InputImageSide ELSE CeilSqrt(neuronCount)

\* rows of the input layer; with cols = 0 the quotient is NaN and no row runs
InputRows(neuronCount, cols) ==
  IF neuronCount = InputImageSide * InputImageSide THEN InputImageSide
  ELSE IF cols = 0 THEN 0
  ELSE CeilDiv(neuronCount, cols)

\* the input layer's nested loops stop at rows * cols or at neuronCount
\* positions, whichever comes first
Filled(neuronCount, cols, rows) == Min(rows * cols, neuronCount)

InputGridRows(neuronCount, layerX2, cols, rows) ==
  GridPositions(Filled(neuronCount, cols, rows), layerX2, InputSpacing, cols, rows)

InputGrid(neuronCount, layerX2, cols) ==
  InputGridRows(neuronCount, layerX2, cols, InputRows(neuronCount, cols))

\* Math.max(1, Math.ceil(Math.sqrt(neuronCount)))
AtLeastOne(c) == IF c > 1 THEN c ELSE 1

\* a hidden layer's loop runs once per index < neuronCount
HiddenGrid(neuronCount, layerX2, cols) ==
  GridPositions(neuronCount, layerX2, HiddenSpacing, cols, CeilDiv(neuronCount, cols))

\* NetworkVisualizer.computeLayerPositions (layerX2 is twice layerX in
\* hundredths)
ComputeLayerPositions(layerIndex, neuronCount, layerX2) ==
  IF layerIndex = 0
  THEN InputGrid(neuronCount, layerX2, InputCols(neuronCount))
  ELSE HiddenGrid(neuronCount, layerX2, AtLeastOne(CeilSqrt(neuronCount)))

\* setRGB(0.08, 0.1, 0.18) / setRGB(0.1, 0.12, 0.18) written at build time
BaseColor == [kind |-> "base", value |-> 0, scale |-> 0]

\* the mesh of one layer: transforms from the positions, base colours
LayerMesh(neuronCount, positions) ==
  [count |-> neuronCount,
   positions |-> positions,
   matrices |-> positions,
   colors |-> [i \in 1 .. Len(positions) |-> BaseColor],
   colorNeedsUpdate |-> TRUE]

\* NetworkVisualizer.buildLayers: one instanced mesh per architecture entry
BuildLayers(architecture) ==
  [k \in 1 .. Len(architecture) |->
     LayerMesh(architecture[k],
               ComputeLayerPositions(k - 1, architecture[k],
                 2 * (k - 1) * LayerSpacing - (Len(architecture) - 1) * LayerSpacing))]

\* the candidates of one target row: finite weights, in column order
RECURSIVE CandidatesFrom(_, _, _)
CandidatesFrom(row, target, source) ==
  IF source >= Len(row) THEN << >>
  ELSE (IF IsFinite(row[source + 1])
        THEN << [sourceIndex |-> source, targetIndex |-> target,
                 weight |-> row[source + 1], magnitude |-> FAbs(row[source + 1])] >>
        ELSE << >>)
       \o CandidatesFrom(row, target, source + 1)

\* variant of the insertion that puts c in front of elements of equal magnitude
RECURSIVE InsertDescBeforeEqual(_, _)
InsertDescBeforeEqual(sorted, c) ==
  IF Len(sorted) = 0 THEN << c >>
  ELSE IF sorted[1].magnitude > c.magnitude
       THEN << sorted[1] >> \o InsertDescBeforeEqual(Tail(sorted), c)
       ELSE << c >> \o sorted

\* insert c behind every element whose magnitude is >= its own
RECURSIVE InsertDesc(_, _)
InsertDesc(sorted, c) ==
  IF Len(sorted) = 0 THEN << c >>
  ELSE IF sorted[1].magnitude >= c.magnitude
       THEN << sorted[1] >> \o InsertDesc(Tail(sorted), c)
       ELSE << c >> \o sorted

\* variant that leaves the candidates in column order
SortNone(candidates) == candidates

\* candidates.sort((a, b) => b.magnitude - a.magnitude): stable, descending
RECURSIVE SortDesc(_)
SortDesc(candidates) ==
  IF Len(candidates) = 0 THEN << >>
  ELSE InsertDesc(SortDesc(SubSeq(candidates, 1, Len(candidates) - 1)),
                  candidates[Len(candidates)])

RECURSIVE MaxMagnitude(_, _)
MaxMagnitude(candidates, max) ==
  IF Len(candidates) = 0 THEN max
  ELSE MaxMagnitude(Tail(candidates),
                    IF Head(candidates).magnitude > max
                    THEN Head(candidates).magnitude ELSE max)

\* the first `take` of the sorted candidates, as rendered connections
TakeTop(sorted, take) ==
  [i \in 1 .. take |->
     [sourceIndex |-> sorted[i].sourceIndex,
      targetIndex |-> sorted[i].targetIndex,
      weight |-> sorted[i].weight]]

\* variant whose copy loop stops one short
TopOfSortedOneShort(sorted, limit) ==
  TakeTop(sorted, IF Min(limit, Len(sorted)) > 0 THEN Min(limit, Len(sorted)) - 1 ELSE 0)

\* const take = Math.min(limit, candidates.length), then the copy loop
TopOfSorted(sorted, limit) == TakeTop(sorted, Min(limit, Len(sorted)))

\* variant that takes the maximum over the selected edges only
FindStepMaxOfSelected(acc, candidates, limit) ==
  [selected |-> acc.selected \o TopOfSorted(SortDesc(candidates), limit),
   maxAbsWeight |-> MaxMagnitude(SubSeq(SortDesc(candidates), 1, Min(limit, Len(candidates))),
                                 acc.maxAbsWeight)]

\* one target row added to the result
FindStep(acc, candidates, limit) ==
  [selected |-> acc.selected \o TopOfSorted(SortDesc(candidates), limit),
   maxAbsWeight |-> MaxMagnitude(candidates, acc.maxAbsWeight)]

\* the pass over targets from 0-based index `target` on
RECURSIVE FindFrom(_, _, _, _)
FindFrom(weights, limit, target, acc) ==
  IF target >= Len(weights) THEN acc
  ELSE FindFrom(weights, limit, target + 1,
                FindStep(acc, CandidatesFrom(weights[target + 1], target, 0), limit))

\* NetworkVisualizer.findImportantConnections
FindImportantConnections(layer, limit) ==
  FindFrom(layer.weights, limit, 0, [selected |-> << >>, maxAbsWeight |-> 0])

\* a selected connection whose end point has no position: the transform
\* computation dereferences undefined and throws a TypeError
ConnectionThrows(layerMeshes, layerIndex, connection) ==
  \/ layerIndex + 2 > Len(layerMeshes)
  \/ connection.sourceIndex >= Len(layerMeshes[layerIndex + 1].positions)
  \/ connection.targetIndex >= Len(layerMeshes[layerIndex + 2].positions)

\* the instanced mesh of one layer transition; lastScale records the divisor
\* (`scale`) the last applyConnectionColors call used, 0 before the first
ConnectionGroup(layerMeshes, layerIndex, selected, maxAbsWeight) ==
  [connections |-> selected,
   sourceLayer |-> layerIndex,
   maxAbsWeight |-> maxAbsWeight,
   matrices |-> [i \in 1 .. Len(selected) |->
      [from |-> layerMeshes[layerIndex + 1].positions[selected[i].sourceIndex + 1],
       to |-> layerMeshes[layerIndex + 2].positions[selected[i].targetIndex + 1]]],
   colors |-> [i \in 1 .. Len(selected) |-> BaseColor],
   colorNeedsUpdate |-> TRUE,
   lastScale |-> 0]

\* the body of the loop over mlp.layers
ConnectionsStep(acc, layerMeshes, layerIndex, found) ==
  IF Len(found.selected) = 0 THEN acc
  ELSE IF \E i \in 1 .. Len(found.selected) :
            ConnectionThrows(layerMeshes, layerIndex, found.selected[i])
  THEN [acc EXCEPT !.threw = TRUE]
  ELSE [acc EXCEPT !.groups =
          Append(acc.groups,
                 ConnectionGroup(layerMeshes, layerIndex, found.selected, found.maxAbsWeight))]

\* the loop over mlp.layers from 0-based layerIndex on
RECURSIVE BuildConnectionsFrom(_, _, _, _)
BuildConnectionsFrom(layers, layerMeshes, layerIndex, acc) ==
  IF acc.threw \/ layerIndex >= Len(layers) THEN acc
  ELSE BuildConnectionsFrom(layers, layerMeshes, layerIndex + 1,
         ConnectionsStep(acc, layerMeshes, layerIndex,
           FindImportantConnections(layers[layerIndex + 1], MaxConnectionsPerNeuron)))

\* NetworkVisualizer.buildConnections
BuildConnections(layers, layerMeshes) ==
  BuildConnectionsFrom(layers, layerMeshes, 0, [threw |-> FALSE, groups |-> << >>])

NoVisualizer ==
  [threw |-> FALSE, sceneCreated |-> FALSE, loopStarted |-> FALSE,
   layerMeshes |-> << >>, connectionGroups |-> << >>]

\* this.animate(): renderer.setAnimationLoop(...)
Animate(visualizer) == [visualizer EXCEPT !.loopStarted = TRUE]

\* the constructor after buildConnections: animate() unless it threw
VisualizerBuilt(meshes, conns) ==
  IF conns.threw
  THEN [threw |-> TRUE, sceneCreated |-> TRUE, loopStarted |-> FALSE,
        layerMeshes |-> meshes, connectionGroups |-> conns.groups]
  ELSE Animate([threw |-> FALSE, sceneCreated |-> TRUE, loopStarted |-> FALSE,
                layerMeshes |-> meshes, connectionGroups |-> conns.groups])

VisualizerWithLayers(mlp, meshes) ==
  VisualizerBuilt(meshes, BuildConnections(mlp.layers, meshes))

\* new NetworkVisualizer(mlp, options): initThreeScene, buildLayers,
\* buildConnections, animate.  webglOk = the WebGL renderer can be created.
NetworkVisualizerNew(mlp, webglOk) ==
  IF ~webglOk
  THEN [NoVisualizer EXCEPT !.threw = TRUE, !.sceneCreated = TRUE]
  ELSE VisualizerWithLayers(mlp, BuildLayers(mlp.architecture))

\* ------------------------------------------------ NetworkVisualizer: update

\* 1.0 in hundredths
One == 100
\* intensity thresholds of applyNodeColors (0.015) and applyConnectionColors
\* (0.02), in thousandths
NodeIdleThreshold == 15
ConnectionIdleThreshold == 20

\* maxAbsValue(values): a NaN magnitude never replaces max
RECURSIVE MaxAbsFrom(_, _, _)
MaxAbsFrom(values, i, max) ==
  IF i > Len(values) THEN max
  ELSE MaxAbsFrom(values, i + 1,
                  IF FGt(FAbs(values[i]), max) THEN FAbs(values[i]) ELSE max)

MaxAbsValue(values) == MaxAbsFrom(values, 1, 0)

\* Math.min(1, Math.abs(value) / scale) < threshold, threshold in thousandths
IntensityBelow(value, scale, threshold) ==
  IF IsNaN(value) THEN FALSE
  ELSE IF IsInf(value) THEN FALSE
  ELSE IF IsInf(scale) THEN TRUE
  ELSE FAbs(value) * 1000 < threshold * scale

\* value >= 0
FGe0(value) == ~IsNaN(value) /\ (value = PInf \/ (value # NInf /\ value >= 0))

\* the colour an instance gets: idle below the threshold, else the positive
\* or negative ramp at intensity |value| / scale
ColorOf(value, scale, threshold) ==
  IF IntensityBelow(value, scale, threshold) THEN [kind |-> "idle", value |-> 0, scale |-> 0]
  ELSE IF FGe0(value) THEN [kind |-> "pos", value |-> value, scale |-> scale]
  ELSE [kind |-> "neg", value |-> value, scale |-> scale]

\* variant that allocates a new colour buffer of values.length entries
NodeColorsReallocated(mesh, values, safeScale) ==
  [mesh EXCEPT
     !.count = Len(values),
     !.colors = [i \in 1 .. Len(values) |-> ColorOf(values[i], safeScale, NodeIdleThreshold)],
     !.colorNeedsUpdate = TRUE]

\* the colour loop of applyNodeColors; writes past the instance count are lost
NodeColors(mesh, values, safeScale) ==
  [mesh EXCEPT
     !.colors = [i \in 1 .. Len(mesh.colors) |->
                   IF i <= Len(values)
                   THEN ColorOf(values[i], safeScale, NodeIdleThreshold)
                   ELSE mesh.colors[i]],
     !.colorNeedsUpdate = TRUE]

\* NetworkVisualizer.applyNodeColors
ApplyNodeColors(mesh, values, scale) ==
  NodeColors(mesh, values, IF FGt(scale, 0) THEN scale ELSE One)

\* scale || 1
OrOne(scale) == IF scale = 0 THEN One ELSE scale

\* the scale update() hands to applyNodeColors for layer layerIndex (0-based)
NodeScale(layerIndex, actualActivations) ==
  IF layerIndex = 0 THEN One
  ELSE IF layerIndex < Len(actualActivations)
       THEN OrOne(MaxAbsValue(actualActivations[layerIndex + 1]))
       ELSE One

\* contribution = activation * connection.weight, per rendered connection
Contributions(group, sourceValues) ==
  [i \in 1 .. Len(group.connections) |->
     FMul(IF group.connections[i].sourceIndex < Len(sourceValues)
          THEN sourceValues[group.connections[i].sourceIndex + 1] ELSE 0,
          group.connections[i].weight)]

\* variant that always scales by the static weight maximum
ConnectionScaleStatic(maxContribution, maxAbsWeight) ==
  IF maxAbsWeight # 0 THEN maxAbsWeight * One ELSE One

\* maxContribution > 1e-6 ? maxContribution : group.maxAbsWeight || 1
ConnectionScale(maxContribution, maxAbsWeight) ==
  IF FGt(maxContribution, 0) THEN maxContribution
  ELSE IF maxAbsWeight # 0 THEN maxAbsWeight * One ELSE One

\* the colour loop of applyConnectionColors
ConnectionColors(group, contributions, scale) ==
  [group EXCEPT
     !.colors = [i \in 1 .. Len(group.colors) |->
                   ColorOf(contributions[i], scale, ConnectionIdleThreshold)],
     !.colorNeedsUpdate = TRUE,
     !.lastScale = scale]

ConnectionColorsOf(group, contributions) ==
  ConnectionColors(group, contributions,
                   ConnectionScale(MaxAbsValue(contributions), group.maxAbsWeight))

\* NetworkVisualizer.applyConnectionColors
ApplyConnectionColors(group, sourceValues) ==
  ConnectionColorsOf(group, Contributions(group, sourceValues))

\* NetworkVisualizer.update(displayActivations, actualActivations)
Update(visualizer, displayActivations, actualActivations) ==
  [visualizer EXCEPT
     !.layerMeshes =
        [k \in 1 .. Len(visualizer.layerMeshes) |->
           IF k > Len(displayActivations) THEN visualizer.layerMeshes[k]
           ELSE ApplyNodeColors(visualizer.layerMeshes[k], displayActivations[k],
                                NodeScale(k - 1, actualActivations))],
     !.connectionGroups =
        [g \in 1 .. Len(visualizer.connectionGroups) |->
           IF visualizer.connectionGroups[g].sourceLayer >= Len(actualActivations)
           THEN visualizer.connectionGroups[g]
           ELSE ApplyConnectionColors(visualizer.connectionGroups[g],
                  actualActivations[visualizer.connectionGroups[g].sourceLayer + 1])]]

\* ------------------------------------------------ softmax, PredictionChart

\* -x
FNeg(x) == IF IsNaN(x) THEN NaN ELSE IF x = PInf THEN NInf
           ELSE IF x = NInf THEN PInf ELSE -x

\* Math.max(...values): NaN as soon as one value is NaN, -Infinity when empty
RECURSIVE MathMaxFrom(_, _, _)
MathMaxFrom(values, i, max) ==
  IF i > Len(values) THEN max
  ELSE IF IsNaN(values[i]) \/ IsNaN(max) THEN NaN
  ELSE MathMaxFrom(values, i + 1, IF FGt(values[i], max) THEN values[i] ELSE max)

MathMax(values) == MathMaxFrom(values, 1, NInf)

\* exponentials are fixed-point numbers in units of 1 / ExpOne
ExpOne == 10000
\* Math.exp(-0.01) in those units
ExpHundredth == 9900
\* arguments below -ExpCutoff hundredths give 0 in those units
ExpCutoff == 1000

\* Math.exp(-k / 100) for a natural k, by repeated squaring
RECURSIVE ExpNeg(_)
ExpNeg(k) ==
  IF k = 0 THEN ExpOne
  ELSE IF k > ExpCutoff THEN 0
  ELSE IF k % 2 = 1 THEN (ExpNeg(k - 1) * ExpHundredth) \div ExpOne
  ELSE (ExpNeg(k \div 2) * ExpNeg(k \div 2)) \div ExpOne

\* Math.exp(d) for d <= 0 in hundredths (softmax only passes value - maxVal)
Exp(d) ==
  IF IsNaN(d) THEN NaN
  ELSE IF d = NInf THEN 0
  ELSE IF d = PInf THEN PInf
  ELSE IF d > 0 THEN PInf
  ELSE ExpNeg(-d)

\* exps.reduce((acc, value) => acc + value, 0)
RECURSIVE SumFrom(_, _, _)
SumFrom(values, i, acc) ==
  IF i > Len(values) THEN acc ELSE SumFrom(values, i + 1, FAdd(acc, values[i]))

\* variant that returns the exponential without dividing by the sum
ShareUnnormalized(value, sum) == IF IsNaN(value) THEN NaN ELSE (value * One) \div ExpOne

\* sum === 0 ? 0 : value / sum, in hundredths (truncated)
Share(value, sum) ==
  IF IsNaN(sum) \/ IsNaN(value) THEN NaN
  ELSE IF sum = 0 THEN 0
  ELSE IF IsInf(sum) THEN (IF IsInf(value) THEN NaN ELSE 0)
  ELSE (value * One) \div sum

SoftmaxOf(exps, sum) == [i \in 1 .. Len(exps) |-> Share(exps[i], sum)]

\* exps.map(value => sum === 0 ? 0 : value / sum)
SoftmaxOfExps(exps) == SoftmaxOf(exps, SumFrom(exps, 1, 0))

\* values.map(value => Math.exp(value - maxVal))
SoftmaxWithMax(values, maxVal) ==
  SoftmaxOfExps([i \in 1 .. Len(values) |-> Exp(FAdd(values[i], FNeg(maxVal)))])

\* softmax(values): probabilities in hundredths
Softmax(values) ==
  IF Len(values) = 0 THEN << >> ELSE SoftmaxWithMax(values, MathMax(values))

\* the logits updateNetwork hands to softmax: the last pre-activation vector
Logits(result) ==
  IF Len(result.preActivations) > 0
  THEN result.heap[result.preActivations[Len(result.preActivations)]]
  ELSE << >>

\* the chart has one row per digit
ChartRows == 10

\* Math.max(0, Math.min(1, prob))
Clamped(prob) ==
  IF IsNaN(prob) THEN NaN
  ELSE IF FGt(prob, One) THEN One
  ELSE IF FGt(0, prob) THEN 0 ELSE prob

\* PredictionChart.build: ten rows showing 0.0%
ChartBuilt == [i \in 1 .. ChartRows |-> [width |-> 0, highest |-> FALSE]]

\* the rows after the forEach of PredictionChart.update
ChartWithMax(rows, probabilities, maxProb) ==
  [i \in 1 .. Len(rows) |->
     IF i <= Len(probabilities)
     THEN [width |-> Clamped(probabilities[i]),
           highest |-> ~IsNaN(probabilities[i]) /\ Clamped(probabilities[i]) = maxProb]
     ELSE rows[i]]

\* PredictionChart.update(probabilities)
ChartUpdate(rows, probabilities) ==
  IF Len(probabilities) = 0 THEN rows
  ELSE ChartWithMax(rows, probabilities, MathMax(probabilities))

\* ---------------------------------------------------------------- the state

VARIABLES
  pc,             \* "boot", "fetching", "running" (initApp returned), "failed"
  loaded,         \* what loadNetworkDefinition settled with (kind "pending" before)
  failure,        \* where initApp threw: "none", "load", "noNetwork",
                  \* "InvalidDefinition", "visualizer", "forward"
  errorShown,     \* number of displayError calls
  mlp,            \* the MLPNetwork (NoMlp before it exists)
  gridBuilt,      \* the DrawingGrid exists and listens to pointer events
  values,         \* DrawingGrid.values, hundredths
  isDrawing,      \* DrawingGrid.isDrawing
  activeMode,     \* DrawingGrid.activeMode
  onChange,       \* DrawingGrid.onChange is a function
  pendingChange,  \* DrawingGrid.pendingChange
  rafQueue,       \* outstanding requestAnimationFrame callbacks of scheduleChange
  resetBound,     \* the reset button's click listener is registered
  visualizer,     \* the NetworkVisualizer (NoVisualizer before it exists)
  forward,        \* result of the last mlp.forward call (NoForward: none / threw)
  lastInput,      \* rawInput of the last updateNetwork call
  lastAct,        \* history: the handler of initApp or of the grid that ran last
  ranNow,         \* history: updateNetwork calls made by that handler
  coalesced,      \* history: value-changing paints since the previous frame callback
  drained,        \* history: value of coalesced when the last frame callback ran
  paints,         \* history: paintCell calls so far (bounded by MaxPaints)
  chart,          \* the rows of the PredictionChart (<< >> before it exists)
  renderer,       \* renderer size and camera projection of the scene
  call,           \* a single call of one of the program's functions: its
                  \* arguments and, once it returned, its result
  currentLanguage,    \* i18n: let currentLanguage
  translations,       \* i18n: the language whose document is in let translations
                      \* ("none": the initial {})
  documentLang,       \* document.documentElement.lang
  preferredLanguage,  \* localStorage item 'preferredLanguage' ("null": absent)
  listening,          \* the language toggle button has its click listener
  loads,              \* the switchLanguage / initI18n calls made so far, each with
                      \* its position and the history of its fetches
  events              \* the 'languageChanged' events dispatched so far

vars == << pc, loaded, failure, errorShown, mlp, gridBuilt, values, isDrawing, activeMode,
           onChange, pendingChange, rafQueue, resetBound, visualizer, forward,
           lastInput, lastAct, ranNow, coalesced, drained, paints, chart, renderer,
           call, currentLanguage, translations, documentLang, preferredLanguage,
           listening, loads, events >>

\* the state of the i18n module
i18nVars ==
  << currentLanguage, translations, documentLang, preferredLanguage, listening,
     loads, events >>

ZeroValues == [i \in 1 .. NumCells |-> 0]

\* no renderer yet
NoRenderer ==
  [created |-> FALSE, width |-> 0, height |-> 0, aspect |-> 0, projectionAspect |-> 0]

\* window.innerWidth x window.innerHeight: the sizes the window takes
WindowSizes == { [width |-> 800, height |-> 600], [width |-> 600, height |-> 800] }
\* the window's size while initApp runs
WindowAtLoad == [width |-> 800, height |-> 600]

\* renderer.setSize(width, height); camera.aspect = width / height (in
\* hundredths); the projection matrix is computed for that aspect
RendererFor(size) ==
  [created |-> TRUE, width |-> size.width, height |-> size.height,
   aspect |-> (size.width * One) \div size.height,
   projectionAspect |-> (size.width * One) \div size.height]

\* no function call is being looked at
NoCall == [fn |-> "none", done |-> FALSE]

\* the state before the DOMContentLoaded event
ProgramInit ==
  /\ pc = "boot"
  /\ loaded = [kind |-> "pending", network |-> DefNoLayers]
  /\ failure = "none"
  /\ errorShown = 0
  /\ mlp = NoMlp
  /\ gridBuilt = FALSE
  /\ values = ZeroValues
  /\ isDrawing = FALSE
  /\ activeMode = "draw"
  /\ onChange = FALSE
  /\ pendingChange = FALSE
  /\ rafQueue = 0
  /\ resetBound = FALSE
  /\ visualizer = NoVisualizer
  /\ forward = NoForward
  /\ lastInput = ZeroValues
  /\ lastAct = "none"
  /\ ranNow = 0
  /\ coalesced = 0
  /\ drained = 0
  /\ paints = 0
  /\ chart = << >>
  /\ renderer = NoRenderer

\* the i18n module before DOMContentLoaded: let currentLanguage = 'en',
\* let translations = {}, <html lang="en">, no listener
I18nLoaded ==
  /\ currentLanguage = "en"
  /\ translations = "none"
  /\ documentLang = "en"
  /\ listening = FALSE
  /\ loads = << >>
  /\ events = << >>

Init ==
  /\ ProgramInit
  /\ call = NoCall
  /\ I18nLoaded
  /\ preferredLanguage = "null"

\* ------------------------------------------------------------ updateNetwork

\* visualizer.update(displayActivations, actualActivations) with
\* displayActivations = [rawInput, ...actualActivations.slice(1)]
UpdateFrom(vis, pixels, actual) ==
  Update(vis, << pixels >> \o SubSeq(actual, 2, Len(actual)), actual)

\* updateNetwork after mlp.forward returned or threw
UpdateWith(vis, rows, pixels, result) ==
  IF result.threw
  THEN [threw |-> TRUE, forward |-> NoForward, visualizer |-> vis, chart |-> rows]
  ELSE [threw |-> FALSE, forward |-> result,
        visualizer |-> UpdateFrom(vis, pixels, Vectors(result, result.activations)),
        chart |-> ChartUpdate(rows, Softmax(Logits(result)))]

\* initApp.updateNetwork on the grid buffer `pixels`
UpdateNetwork(net, vis, rows, pixels) ==
  UpdateWith(vis, rows, pixels, Forward(net, pixels))

\* ----------------------------------------------------------------- start-up

\* variant of the listener that starts the render loop before the fetch settles
DOMContentLoadedEagerLoop ==
  /\ pc = "boot"
  /\ pc' = "fetching"
  /\ lastAct' = "DOMContentLoaded"
  /\ ranNow' = 0
  /\ visualizer' = Animate(visualizer)
  /\ UNCHANGED << failure, errorShown, mlp, gridBuilt, values, isDrawing, activeMode,
                  onChange, pendingChange, rafQueue, resetBound, forward,
                  lastInput, coalesced, drained, paints, loaded, chart, renderer, call, i18nVars >>

\* the DOMContentLoaded listener: initApp() runs up to its first await
DOMContentLoaded ==
  /\ pc = "boot"
  /\ pc' = "fetching"
  /\ lastAct' = "DOMContentLoaded"
  /\ ranNow' = 0
  /\ UNCHANGED << failure, errorShown, mlp, gridBuilt, values, isDrawing, activeMode,
                  onChange, pendingChange, rafQueue, resetBound, visualizer, forward,
                  lastInput, coalesced, drained, paints, loaded, chart, renderer, call, i18nVars >>

\* initApp rejects at `where`: the catch of the listener calls displayError
Fails(where) ==
  /\ pc' = "failed"
  /\ failure' = where
  /\ errorShown' = errorShown + 1

\* initApp from `const mlp = new MLPNetwork(...)` on threw before the grid existed
FailsEarly(where) ==
  /\ Fails(where)
  /\ ranNow' = 0
  /\ UNCHANGED << mlp, gridBuilt, onChange, resetBound, visualizer, forward, lastInput,
                  chart, renderer >>

\* initApp after the first updateNetwork() call
InitAfterFirstUpdate(net, first) ==
  /\ mlp' = net
  /\ gridBuilt' = TRUE
  /\ resetBound' = TRUE
  /\ onChange' = TRUE
  /\ ranNow' = 1
  /\ lastInput' = values
  /\ forward' = first.forward
  /\ visualizer' = first.visualizer
  /\ chart' = first.chart
  /\ IF first.threw
     THEN Fails("forward")
     ELSE /\ pc' = "running"
          /\ UNCHANGED << failure, errorShown >>

\* initApp after new NetworkVisualizer(...)
InitAfterVisualizer(net, vis) ==
  IF vis.threw
  THEN /\ Fails("visualizer")
       /\ ranNow' = 0
       /\ mlp' = net
       /\ gridBuilt' = TRUE
       /\ visualizer' = vis
       /\ chart' = ChartBuilt
       /\ UNCHANGED << onChange, resetBound, forward, lastInput >>
  ELSE InitAfterFirstUpdate(net, UpdateNetwork(net, vis, ChartBuilt, values))

\* initApp after new MLPNetwork(definition.network)
InitAfterNetwork(net, webglOk) ==
  IF net.threw
  THEN FailsEarly("InvalidDefinition")
  ELSE /\ renderer' = (IF webglOk THEN RendererFor(WindowAtLoad) ELSE renderer)
       /\ InitAfterVisualizer(net, NetworkVisualizerNew(net, webglOk))

\* loadNetworkDefinition settles and initApp runs to its end; everything after
\* the await is one synchronous task
InitAppContinues ==
  /\ pc = "fetching"
  /\ lastAct' = "initApp"
  /\ UNCHANGED << values, isDrawing, activeMode, pendingChange, rafQueue, coalesced,
                  drained, paints, call, i18nVars >>
  /\ \E outcome \in FetchOutcomes, webglOk \in BOOLEAN :
       /\ loaded' = outcome
       /\ IF outcome.kind \in {"rejected", "notOk"} THEN FailsEarly("load")
          ELSE IF outcome.kind = "noNetwork" THEN FailsEarly("noNetwork")
          ELSE InitAfterNetwork(MLPNetworkNew(outcome.network), webglOk)

\* -------------------------------------------------------------- DrawingGrid

\* brush deltas of paintCell, hundredths
DrawDelta == 55
EraseDelta == 45

\* Math.min(1, Math.max(0, value + delta))
NextValue(value, erase) ==
  LET raw == IF erase THEN value - EraseDelta ELSE value + DrawDelta
  IN IF raw < 0 THEN 0 ELSE IF raw > One THEN One ELSE raw

\* variant of scheduleChange without the pendingChange guard
ScheduleChangeAlways(pending, queue) ==
  [pendingChange |-> TRUE, rafQueue |-> queue + 1]

\* DrawingGrid.scheduleChange on (pendingChange, rafQueue)
ScheduleChange(pending, queue) ==
  IF pending THEN [pendingChange |-> pending, rafQueue |-> queue]
  ELSE [pendingChange |-> TRUE, rafQueue |-> queue + 1]

\* variant of paintCell without the early return for an unchanged value
PaintToAlways(index, nextValue, scheduled) ==
  /\ paints' = paints + 1
  /\ values' = [values EXCEPT ![index + 1] = nextValue]
  /\ pendingChange' = scheduled.pendingChange
  /\ rafQueue' = scheduled.rafQueue
  /\ coalesced' = coalesced + 1

\* paintCell once nextValue is known
PaintTo(index, nextValue, scheduled) ==
  /\ paints' = paints + 1
  /\ IF nextValue = values[index + 1]
     THEN UNCHANGED << values, pendingChange, rafQueue, coalesced >>
     ELSE /\ values' = [values EXCEPT ![index + 1] = nextValue]
          /\ pendingChange' = scheduled.pendingChange
          /\ rafQueue' = scheduled.rafQueue
          /\ coalesced' = coalesced + 1

\* DrawingGrid.paintCell(index, erase), index 0-based
PaintCell(index, erase) ==
  PaintTo(index, NextValue(values[index + 1], erase),
          ScheduleChange(pendingChange, rafQueue))

\* what a pointer event can be over: a cell, or nothing with a data-index
NoCell == NumCells
PointerTargets == Cells \cup {NoCell}

\* DrawingGrid.applyPointer
ApplyPointer(target, erase) ==
  IF target = NoCell
  THEN UNCHANGED << values, pendingChange, rafQueue, coalesced, paints >>
  ELSE PaintCell(target, erase)

\* DrawingGrid.handlePointerDown
HandlePointerDown ==
  /\ gridBuilt
  /\ paints < MaxPaints
  /\ \E target \in PointerTargets, isErase \in BOOLEAN :
       /\ activeMode' = IF isErase THEN "erase" ELSE "draw"
       /\ isDrawing' = TRUE
       /\ ApplyPointer(target, isErase)
  /\ lastAct' = "pointer"
  /\ ranNow' = 0
  /\ UNCHANGED << pc, loaded, failure, errorShown, mlp, gridBuilt, onChange, resetBound,
                  visualizer, forward, lastInput, drained, chart, renderer, call, i18nVars >>

\* DrawingGrid.handlePointerMove
HandlePointerMove ==
  /\ gridBuilt
  /\ paints < MaxPaints
  /\ isDrawing
  /\ \E target \in PointerTargets : ApplyPointer(target, activeMode = "erase")
  /\ lastAct' = "pointer"
  /\ ranNow' = 0
  /\ UNCHANGED << pc, loaded, failure, errorShown, mlp, gridBuilt, isDrawing, activeMode,
                  onChange, resetBound, visualizer, forward, lastInput, drained,
                  chart, renderer, call, i18nVars >>

\* DrawingGrid.handlePointerUp
HandlePointerUp ==
  /\ gridBuilt
  /\ isDrawing
  /\ isDrawing' = FALSE
  /\ lastAct' = "pointerup"
  /\ ranNow' = 0
  /\ UNCHANGED << pc, failure, errorShown, mlp, gridBuilt, values, activeMode,
                  onChange, pendingChange, rafQueue, resetBound, visualizer, forward,
                  lastInput, coalesced, drained, paints, loaded, chart, renderer, call, i18nVars >>

\* variant of the frame callback that drops the handler call
FrameRecomputesNone(queue, handlerSet) == 0

\* the callbacks requestAnimationFrame runs at a frame boundary: each clears
\* pendingChange and, when a handler is installed, calls it; the number of
\* updateNetwork calls this makes
FrameRecomputes(queue, handlerSet) == IF handlerSet THEN queue ELSE 0

\* the state a completed updateNetwork call on `pixels` leaves
Recomputed(pixels, u) ==
  /\ lastInput' = pixels
  /\ forward' = u.forward
  /\ visualizer' = u.visualizer
  /\ chart' = u.chart

\* variant of the callback that clears the flag after the handler returned:
\* a handler that throws leaves it set
PendingAfterCallbackClearedLast(handlerThrows) == handlerThrows

\* this.pendingChange = false is the callback's first statement, so the flag
\* is cleared whether or not the handler then throws
PendingAfterCallback(handlerThrows) == FALSE

\* a frame boundary with scheduleChange callbacks outstanding
Frame ==
  /\ rafQueue > 0
  /\ rafQueue' = 0
  /\ pendingChange' = PendingAfterCallback(onChange /\ Forward(mlp, values).threw)
  /\ coalesced' = 0
  /\ drained' = coalesced
  /\ lastAct' = "frame"
  /\ ranNow' = FrameRecomputes(rafQueue, onChange)
  /\ IF FrameRecomputes(rafQueue, onChange) > 0
     THEN Recomputed(values, UpdateNetwork(mlp, visualizer, chart, values))
     ELSE UNCHANGED << lastInput, forward, visualizer, chart >>
  /\ UNCHANGED << pc, loaded, failure, errorShown, mlp, gridBuilt, values, isDrawing,
                  activeMode, onChange, resetBound, paints, renderer, call, i18nVars >>

\* the updateNetwork calls one reset click makes: clear() calls the change
\* handler, then the listener calls updateNetwork itself, unless the first
\* call threw (the exception leaves clear() and the listener)
ResetRecomputes(handlerSet, throws) ==
  IF handlerSet THEN (IF throws THEN 1 ELSE 2) ELSE 1

ResetWith(u) ==
  /\ ranNow' = ResetRecomputes(onChange, u.threw)
  /\ Recomputed(ZeroValues, u)

\* the reset button's click listener: drawingGrid.clear(); updateNetwork()
ResetClick ==
  /\ resetBound
  /\ values' = ZeroValues
  /\ ResetWith(UpdateNetwork(mlp, visualizer, chart, ZeroValues))
  /\ lastAct' = "reset"
  /\ UNCHANGED << pc, loaded, failure, errorShown, mlp, gridBuilt, isDrawing, activeMode,
                  onChange, pendingChange, rafQueue, resetBound, coalesced, drained, paints,
                  renderer, call, i18nVars >>

\* the window sizes a resize event can report: any size but the current one
ResizedTo == { size \in WindowSizes : RendererFor(size) # renderer }

\* variant of the resize listener that also recomputes the colours
HandleResizeRecolors ==
  /\ renderer.created
  /\ \E size \in ResizedTo : renderer' = RendererFor(size)
  /\ Recomputed(values, UpdateNetwork(mlp, visualizer, chart, values))
  /\ UNCHANGED << pc, loaded, failure, errorShown, mlp, gridBuilt, values, isDrawing,
                  activeMode, onChange, pendingChange, rafQueue, resetBound, lastAct,
                  ranNow, coalesced, drained, paints, call, i18nVars >>

\* NetworkVisualizer.handleResize, the window's resize listener (registered
\* by initThreeScene once the renderer exists)
HandleResize ==
  /\ renderer.created
  /\ \E size \in ResizedTo : renderer' = RendererFor(size)
  /\ UNCHANGED << pc, loaded, failure, errorShown, mlp, gridBuilt, values, isDrawing,
                  activeMode, onChange, pendingChange, rafQueue, resetBound, visualizer,
                  forward, lastInput, lastAct, ranNow, coalesced, drained, paints, chart,
                  call, i18nVars >>

\* ------------------------------------------------------------ specification

Next ==
  \/ DOMContentLoaded
  \/ InitAppContinues
  \/ HandlePointerDown
  \/ HandlePointerMove
  \/ HandlePointerUp
  \/ Frame
  \/ ResetClick
  \/ HandleResize

Spec == Init /\ [][Next]_vars

\* the step that runs the outstanding scheduleChange callbacks; within Next
\* these are exactly the Frame steps
FrameCallbacksRun == rafQueue > 0 /\ rafQueue' = 0

\* requestAnimationFrame callbacks are always eventually run by the browser
FairSpec == Spec /\ WF_rafQueue(FrameCallbacksRun)

\* ------------------------------------------------------------------- claims

\* a forward result is held: the last mlp.forward call returned
ForwardHeld == ~forward.threw

\* C1: pointer paint edits are coalesced.  However many value-changing paints
\* happen between two frame callbacks, exactly one scheduleChange callback is
\* outstanding for them; no paint handler calls updateNetwork itself; and the
\* frame callback that drains them makes one updateNetwork call (none only
\* when no change handler was ever installed), never more.
C1_PaintEditsCoalesced ==
  /\ rafQueue <= 1
  /\ (coalesced >= 1 => rafQueue = 1 /\ pendingChange)
  /\ (lastAct \in {"pointer", "pointerup"} => ranNow = 0)
  /\ (lastAct = "frame" => /\ drained >= 1
                           /\ ranNow <= 1
                           /\ (onChange => ranNow = 1))

\* C1 witness: a frame callback has just run one recompute for two or more
\* paint edits made since the previous frame
C1_Witness ==
  lastAct = "frame" /\ drained >= 2 /\ ranNow = 1 /\ lastInput = values

\* C2: with frame callbacks run fairly, whenever a scheduleChange callback is
\* outstanding and a change handler is installed, a frame callback eventually
\* runs updateNetwork on a buffer equal to the grid's values (so holding every
\* edit made so far); and the number of outstanding callbacks only ever drops
\* in a frame step that makes that call: nothing cancels a scheduled recompute.
C2_RecomputeEventuallyRuns ==
  /\ (onChange /\ rafQueue > 0) ~> (lastAct = "frame" /\ ranNow >= 1 /\ lastInput = values)
  /\ [][rafQueue' < rafQueue => lastAct' = "frame" /\ (onChange => ranNow' >= 1)]_vars

\* C2 witness: a frame callback has recomputed from a buffer that holds a
\* paint edit
C2_Witness ==
  /\ lastAct = "frame" /\ ranNow >= 1 /\ onChange
  /\ lastInput = values /\ values # ZeroValues

\* every weight row of every layer is as long as the previous layer's output
\* (for layer 0: the input)
DimensionsMatch(layers, inputWidth) ==
  \A k \in 1 .. Len(layers) : \A r \in 1 .. Len(layers[k].weights) :
    Len(layers[k].weights[r]) =
      (IF k = 1 THEN inputWidth ELSE Len(layers[k - 1].biases))

\* C3: a definition with a weight row whose length differs from the previous
\* layer's output width (the input width for layer 0) is rejected by the
\* MLPNetwork constructor: forward() never returns a result for a network
\* whose dimensions do not match.
C3_MismatchRejectedAtConstruction ==
  ForwardHeld => DimensionsMatch(mlp.layers, NumCells)

\* C4: when the loaded definition has no layers (missing or empty list), the
\* constructor throws, initApp fails with that error, and neither the grid
\* nor the scene exists and no render loop runs.
C4_EmptyLayersFailBeforeScene ==
  (loaded.kind = "ok" /\ loaded.network \in {DefNoLayers, DefEmptyLayers}) =>
    /\ pc = "failed"
    /\ failure = "InvalidDefinition"
    /\ errorShown = 1
    /\ ~gridBuilt
    /\ ~visualizer.sceneCreated
    /\ ~visualizer.loopStarted

\* C4 witness: the document with layers: [] was loaded and start-up failed
C4_Witness ==
  loaded.kind = "ok" /\ loaded.network = DefEmptyLayers /\ pc = "failed"

\* C5: the render loop runs only after the definition was loaded
\* successfully: never while the fetch is outstanding, and never in any
\* state after a load that failed (fetch rejected, response not ok, document
\* without a network).
C5_LoopOnlyAfterLoad ==
  /\ (pc \in {"boot", "fetching"} => ~visualizer.loopStarted)
  /\ (loaded.kind # "ok" => ~visualizer.loopStarted)

\* C5 witness: the loop runs, after a successful load
C5_Witness ==
  visualizer.loopStarted /\ loaded.kind = "ok" /\ pc = "running"

\* some instance colour was written by update
Recolored ==
  \/ \E k \in 1 .. Len(visualizer.layerMeshes) :
       \E i \in 1 .. Len(visualizer.layerMeshes[k].colors) :
         visualizer.layerMeshes[k].colors[i].kind # "base"
  \/ \E g \in 1 .. Len(visualizer.connectionGroups) :
       \E i \in 1 .. Len(visualizer.connectionGroups[g].colors) :
         visualizer.connectionGroups[g].colors[i].kind # "base"

\* C6: a start-up failure is reported at most once, and whenever the error
\* message is displayed the render loop has not been started and no instance
\* was recoloured by update.
C6_ErrorOnlyBeforeRendering ==
  /\ errorShown <= 1
  /\ (errorShown > 0 => ~visualizer.loopStarted /\ ~Recolored)

\* C7: every definition the constructor accepts yields an architecture of
\* length layers.length + 1, derived or explicit.
C7_ArchitectureLength ==
  (loaded.kind = "ok" /\ ~MLPNetworkNew(loaded.network).threw) =>
    Len(MLPNetworkNew(loaded.network).architecture) = Len(loaded.network.layers) + 1

\* C8: a forward result on a network with L layers has L + 1 activations, the
\* first being the normalised input (the same array as normalizedInput), L
\* pre-activations, and per layer a pre-activation and an activation of
\* length biases.length.
C8_ForwardShape ==
  ForwardHeld =>
    /\ Len(forward.activations) = Len(mlp.layers) + 1
    /\ Len(forward.preActivations) = Len(mlp.layers)
    /\ forward.activations[1] = forward.normalizedInput
    /\ forward.heap[forward.activations[1]] = Normalize(lastInput, mlp.normalization)
    /\ \A i \in 1 .. Len(mlp.layers) :
         /\ Len(forward.heap[forward.preActivations[i]]) = Len(mlp.layers[i].biases)
         /\ Len(forward.heap[forward.activations[i + 1]]) = Len(mlp.layers[i].biases)

\* C8 witness: a result for the two-layer network on a painted buffer
C8_Witness ==
  ForwardHeld /\ Len(mlp.layers) = 2 /\ lastInput # ZeroValues
  /\ Len(forward.activations) = 3

\* heap after array[j] = v on the array behind ref
WriteElement(heap, ref, j, v) == [heap EXCEPT ![ref][j] = v]

IdentityLayers == { i \in 1 .. Len(mlp.layers) : mlp.layers[i].activation # "relu" }

\* C9: for an identity layer the pre-activation and the activation are two
\* arrays with equal contents: a write to any element of the activation
\* leaves the pre-activation as it was, and at the end of the pass the
\* pre-activation still is the layer's linear sum.
C9_IdentityNotAliased ==
  ForwardHeld =>
    \A i \in IdentityLayers :
      /\ forward.preActivations[i] # forward.activations[i + 1]
      /\ forward.heap[forward.preActivations[i]] = forward.heap[forward.activations[i + 1]]
      /\ forward.heap[forward.preActivations[i]] =
           Linear(mlp.layers[i], forward.heap[forward.activations[i]])
      /\ \A j \in 1 .. Len(forward.heap[forward.activations[i + 1]]) :
           \A v \in {0, One, NaN} :
             WriteElement(forward.heap, forward.activations[i + 1], j, v)[forward.preActivations[i]]
               = forward.heap[forward.preActivations[i]]

\* C9 witness: a result with an identity layer whose output is not all zero
C9_Witness ==
  /\ ForwardHeld
  /\ \E i \in IdentityLayers :
       \E j \in 1 .. Len(forward.heap[forward.activations[i + 1]]) :
         forward.heap[forward.activations[i + 1]][j] # 0

ReluLayers == { i \in 1 .. Len(mlp.layers) : mlp.layers[i].activation = "relu" }

\* a is the larger of 0 and p; a NaN p, which compares with nothing, counts
\* as absent
IsMaxWithZero(a, p) ==
  /\ ~IsNaN(a)
  /\ ~FGt(0, a)
  /\ ~FGt(p, a)
  /\ (a = 0 \/ a = p)

\* C10: in a ReLU layer every activation element is max(0, pre-activation
\* element), hence >= 0.
C10_ReluIsMaxWithZero ==
  ForwardHeld =>
    \A i \in ReluLayers :
      \A j \in 1 .. Len(forward.heap[forward.activations[i + 1]]) :
        IsMaxWithZero(forward.heap[forward.activations[i + 1]][j],
                      forward.heap[forward.preActivations[i]][j])

\* C10 witness: a ReLU layer that clamped a negative element and passed a
\* positive one
C10_Witness ==
  /\ ForwardHeld
  /\ \E i \in ReluLayers :
       /\ \E j \in 1 .. Len(forward.heap[forward.activations[i + 1]]) :
            /\ FGt(0, forward.heap[forward.preActivations[i]][j])
            /\ forward.heap[forward.activations[i + 1]][j] = 0
       /\ \E j \in 1 .. Len(forward.heap[forward.activations[i + 1]]) :
            /\ FGt(forward.heap[forward.preActivations[i]][j], 0)
            /\ forward.heap[forward.activations[i + 1]][j]
                 = forward.heap[forward.preActivations[i]][j]


\* ---------------------------------------------------------------- i18n t()

\* Strings are sequences of tokens: ".", "{", "}" and words (runs of \w
\* characters, or text without any of the three marks).
IsWord(token) == token \notin {".", "{", "}"}

\* JSON values and what property access can reach from them
NoMembers == [name \in {} |-> 0]
Str(tokens) == [type |-> "string", tokens |-> tokens, members |-> NoMembers]
Obj(members) == [type |-> "object", tokens |-> << >>, members |-> members]
Num == [type |-> "number", tokens |-> << >>, members |-> NoMembers]
Null == [type |-> "null", tokens |-> << >>, members |-> NoMembers]
Fn == [type |-> "function", tokens |-> << >>, members |-> NoMembers]

\* members every object inherits from Object.prototype; both are functions
Inherited == {"constructor", "toString"}

\* String(Object.prototype.constructor)
FnText == "function Object() { [native code] }"

\* key.split('.') from token k on, with segment `seg` open
RECURSIVE SplitFrom(_, _, _)
SplitFrom(key, k, seg) ==
  IF k > Len(key) THEN << seg >>
  ELSE IF key[k] = "." THEN << seg >> \o SplitFrom(key, k + 1, << >>)
  ELSE SplitFrom(key, k + 1, Append(seg, key[k]))

Split(key) == SplitFrom(key, 1, << >>)

\* value && typeof value === 'object' && k in value (typeof null is
\* 'object' too, but null is not truthy)
Has(value, k) ==
  /\ value.type = "object"
  /\ Len(k) = 1
  /\ k[1] \in (DOMAIN value.members) \cup Inherited

\* value[k] for a k that Has(value, k)
Get(value, k) == IF k[1] \in DOMAIN value.members THEN value.members[k[1]] ELSE Fn

\* the for loop of t over keys[k ..]: the value reached, or found = FALSE
RECURSIVE Walk(_, _, _)
Walk(value, keys, k) ==
  IF k > Len(keys) THEN [found |-> TRUE, value |-> value]
  ELSE IF Has(value, keys[k]) THEN Walk(Get(value, keys[k]), keys, k + 1)
  ELSE [found |-> FALSE, value |-> value]

\* parameter values
NumberParam(text) == [type |-> "number", text |-> text]
StringParam(text) == [type |-> "string", text |-> text]
Undefined == [type |-> "undefined", text |-> "undefined"]
InheritedParam == [type |-> "function", text |-> FnText]

\* params[paramKey]
Param(params, paramKey) ==
  IF paramKey \in DOMAIN params THEN params[paramKey]
  ELSE IF paramKey \in Inherited THEN InheritedParam
  ELSE Undefined

\* the replace callback: String(params[paramKey]) unless that is undefined
Replacement(params, paramKey) ==
  IF Param(params, paramKey).type # "undefined"
  THEN << Param(params, paramKey).text >>
  ELSE << "{", paramKey, "}" >>

\* value.replace(/\{(\w+)\}/g, callback) from token k on
RECURSIVE ReplaceFrom(_, _, _)
ReplaceFrom(tokens, k, params) ==
  IF k > Len(tokens) THEN << >>
  ELSE IF /\ tokens[k] = "{" /\ k + 2 <= Len(tokens)
          /\ IsWord(tokens[k + 1]) /\ tokens[k + 2] = "}"
       THEN Replacement(params, tokens[k + 1]) \o ReplaceFrom(tokens, k + 3, params)
       ELSE << tokens[k] >> \o ReplaceFrom(tokens, k + 1, params)

\* the end of t for a string value
Replaced(tokens, params) ==
  IF DOMAIN params # {} THEN ReplaceFrom(tokens, 1, params) ELSE tokens

\* the end of t for the value the loop reached
Translated(reached, key, params) ==
  IF ~reached.found THEN key
  ELSE IF reached.value.type # "string" THEN key
  ELSE Replaced(reached.value.tokens, params)

\* t(key, params) with `doc` in let translations
T(doc, key, params) == Translated(Walk(doc, Split(key), 1), key, params)


\* ------------------------------------------- single calls of the functions

\* largest vector width and row length of the calls looked at
MaxWidth == 3
\* largest neuron count handed to computeLayerPositions (784 is always tried)
MaxNeurons == 10

\* all vectors of length 0 .. n over the values in S
VectorsUpTo(n, S) == UNION { [1 .. len -> S] : len \in 0 .. n }

\* pixel values, hundredths
PixelValues == {0, 50, 100}
Normalizations ==
  { [mean |-> 0, std |-> 1], [mean |-> 50, std |-> 5], [mean |-> 0, std |-> 0] }

\* the definition of a single identity-activated layer whose weights are the
\* n x n identity matrix and whose biases are 0
DefIdentity(n, normalization) ==
  NetDef("identity", TRUE,
         << LayerDef("identity", [r \in 1 .. n |-> UnitRow(n, r - 1)], RowOf(n, 0)) >>,
         FALSE, << >>, TRUE, normalization)

\* architecture [4, 3, 2], identity activations, biases 0, layer 0 the 3 x 4
\* identity-padded matrix, layer 1 the 2 x 3 matrix of ones, mean 0, std 1
DefEndToEnd ==
  NetDef("endtoend", TRUE,
         << LayerDef("identity", [r \in 1 .. 3 |-> UnitRow(4, r - 1)], RowOf(3, 0)),
            LayerDef("identity", [r \in 1 .. 2 |-> RowOf(3, 1)], RowOf(2, 0)) >>,
         TRUE, << 4, 3, 2 >>, TRUE, [mean |-> 0, std |-> 1])

ForwardCalls ==
  { [fn |-> "forward", done |-> FALSE,
     args |-> [mlp |-> MLPNetworkNew(DefIdentity(Len(x), norm)), pixels |-> x],
     result |-> NoForward] :
    x \in VectorsUpTo(MaxWidth, PixelValues) \ { << >> }, norm \in Normalizations }

UpdateNetworkCalls ==
  { [fn |-> "updateNetwork", done |-> FALSE,
     args |-> [mlp |-> MLPNetworkNew(DefEndToEnd), pixels |-> x],
     result |-> NoForward] :
    x \in [1 .. 4 -> {0, One}] }

\* weights of the layers handed to findImportantConnections
WeightValues == {-2, 1, 2, NaN, PInf}
\* second rows of those layers
SecondRows == { << >>, << 3 >>, << NaN, -1 >>, << -2, 2, 2 >>, << NInf, NaN >> }

SelectorLayers ==
  { LayerDef("relu", << row >>, << 0 >>) : row \in VectorsUpTo(MaxWidth, WeightValues) }
  \cup { LayerDef("relu", << row, second >>, << 0, 0 >>) :
         row \in VectorsUpTo(MaxWidth, WeightValues), second \in SecondRows }

FindCalls ==
  { [fn |-> "findImportantConnections", done |-> FALSE,
     args |-> [layer |-> layer, limit |-> limit],
     result |-> [selected |-> << >>, maxAbsWeight |-> 0]] :
    layer \in SelectorLayers, limit \in 0 .. (MaxWidth + 1) }

LayoutCalls ==
  { [fn |-> "computeLayerPositions", done |-> FALSE,
     args |-> [layerIndex |-> k, neuronCount |-> n, layerX2 |-> x],
     result |-> << >>] :
    k \in 0 .. 2, n \in (0 .. MaxNeurons) \cup {InputImageSide * InputImageSide},
    x \in {0 - LayerSpacing, 0} }

\* translation documents: the initial {} and a document with nested
\* sections, non-string values and placeholders
DocEmpty == Obj(NoMembers)
DocDrawing ==
  Obj([title |-> Str(<< "Digit ", "{", "digit", "}", " of ", "{", "count", "}" >>),
       size |-> Num,
       none |-> Null,
       legend |-> Str(<< "{", "constructor", "}", " ", "{", "digit", "}" >>),
       open |-> Str(<< "{", "digit" >>)])
DocEn == Obj([pageTitle |-> Str(<< "MNIST" >>), drawing |-> DocDrawing])

\* keys: found, missing at each depth, through a string, a number and null,
\* an inherited member, empty segments, and a key that looks like a placeholder
TKeys ==
  { << "pageTitle" >>, << "drawing", ".", "title" >>, << "drawing" >>,
    << "drawing", ".", "size" >>, << "drawing", ".", "none", ".", "x" >>,
    << "drawing", ".", "missing" >>, << "missing", ".", "title" >>,
    << "pageTitle", ".", "length" >>, << "toString" >>,
    << "drawing", ".", "legend" >>, << "drawing", ".", "open" >>,
    << >>, << "drawing", "." >>, << "{", "digit", "}" >> }

\* params: omitted ({}), one supplied, both supplied, one supplied as undefined
TParams ==
  { NoMembers, [digit |-> NumberParam("5")],
    [digit |-> NumberParam("5"), count |-> StringParam("two")],
    [count |-> Undefined] }

TCalls ==
  { [fn |-> "t", done |-> FALSE,
     args |-> [doc |-> d, key |-> k, params |-> p],
     result |-> << >>] :
    d \in {DocEmpty, DocEn}, k \in TKeys, p \in TParams }

\* the program has not started; one call is about to be made
FnInit ==
  /\ ProgramInit
  /\ I18nLoaded
  /\ preferredLanguage = "null"
  /\ call \in ForwardCalls \cup UpdateNetworkCalls \cup FindCalls \cup LayoutCalls
             \cup TCalls

programVars ==
  << pc, loaded, failure, errorShown, mlp, gridBuilt, values, isDrawing, activeMode,
     onChange, pendingChange, rafQueue, resetBound, visualizer, forward,
     lastInput, lastAct, ranNow, coalesced, drained, paints, chart, renderer >>

Returns(result) == call' = [call EXCEPT !.done = TRUE, !.result = result]

\* mlp.forward(pixels)
CallForward ==
  /\ call.fn = "forward" /\ ~call.done
  /\ Returns(Forward(call.args.mlp, call.args.pixels))
  /\ UNCHANGED << programVars, i18nVars >>

\* updateNetwork() on a freshly built visualizer and chart
CallUpdateNetwork ==
  /\ call.fn = "updateNetwork" /\ ~call.done
  /\ Returns(UpdateNetwork(call.args.mlp, NetworkVisualizerNew(call.args.mlp, TRUE),
                           ChartBuilt, call.args.pixels))
  /\ UNCHANGED << programVars, i18nVars >>

\* visualizer.findImportantConnections(layer) with options.maxConnectionsPerNeuron = limit
CallFindImportantConnections ==
  /\ call.fn = "findImportantConnections" /\ ~call.done
  /\ Returns(FindImportantConnections(call.args.layer, call.args.limit))
  /\ UNCHANGED << programVars, i18nVars >>

\* visualizer.computeLayerPositions(layerIndex, neuronCount, layerX)
CallComputeLayerPositions ==
  /\ call.fn = "computeLayerPositions" /\ ~call.done
  /\ Returns(ComputeLayerPositions(call.args.layerIndex, call.args.neuronCount,
                                   call.args.layerX2))
  /\ UNCHANGED << programVars, i18nVars >>

\* t(key, params) with args.doc loaded
CallT ==
  /\ call.fn = "t" /\ ~call.done
  /\ Returns(T(call.args.doc, call.args.key, call.args.params))
  /\ UNCHANGED << programVars, i18nVars >>

FnNext ==
  \/ CallForward
  \/ CallUpdateNetwork
  \/ CallFindImportantConnections
  \/ CallComputeLayerPositions
  \/ CallT

FnSpec == FnInit /\ [][FnNext]_vars


\* ------------------------------------------------- claims on single calls

\* the vectors of a returned forward call
CallActivations == Vectors(call.result, call.result.activations)

AllFinite(vec) == \A i \in 1 .. Len(vec) : IsFinite(vec[i])

\* C11 as stated: for a single identity-activated layer with identity weights
\* and zero biases, activations[1] of forward(x) equals activations[0] (the
\* normalized input) element for element, for every input x.
C11_IdentityNetworkReturnsInput ==
  (call.fn = "forward" /\ call.done) =>
    /\ ~call.result.threw
    /\ Len(CallActivations) = 2
    /\ CallActivations[2] = CallActivations[1]

\* C11 amended: the same, for every input whose normalized values are all
\* finite (with std = 0 they are infinite or NaN, and 0 * Infinity = NaN then
\* makes activations[1] differ from the normalized input).
C11_IdentityNetworkReturnsFiniteInput ==
  (call.fn = "forward" /\ call.done /\ ~call.result.threw
     /\ AllFinite(Normalize(call.args.pixels, call.args.mlp.normalization))) =>
    /\ Len(CallActivations) = 2
    /\ CallActivations[1] = Normalize(call.args.pixels, call.args.mlp.normalization)
    /\ CallActivations[2] = CallActivations[1]

\* C11 witness: forward returned for the 2 x 2 identity network on pixels
\* (1, 0) with mean 0.5 and std 5: both vectors are (0.1, -0.1)
C11_Witness ==
  /\ call.fn = "forward" /\ call.done
  /\ call.args.pixels = << 100, 0 >>
  /\ CallActivations = << << 10, -10 >>, << 10, -10 >> >>

\* C12: end to end, for the [4, 3, 2] identity network with zero biases,
\* identity-padded layer 0, all-ones layer 1 and mean 0 / std 1, the input
\* (1, 0, 0, 0) gives activations[1] = (1, 0, 0), final pre-activation (1, 1)
\* and softmax probabilities (0.5, 0.5), which the chart shows for both classes.
C12_EndToEndScenario ==
  (call.fn = "updateNetwork" /\ call.done /\ call.args.pixels = << One, 0, 0, 0 >>) =>
    /\ ~call.result.threw
    /\ Vectors(call.result.forward, call.result.forward.activations)[1] = << One, 0, 0, 0 >>
    /\ Vectors(call.result.forward, call.result.forward.activations)[2] = << One, 0, 0 >>
    /\ Logits(call.result.forward) = << One, One >>
    /\ Softmax(Logits(call.result.forward)) = << 50, 50 >>
    /\ call.result.chart[1].width = 50 /\ call.result.chart[2].width = 50
    /\ call.result.chart[1].highest /\ call.result.chart[2].highest

\* C12 witness: updateNetwork returned for that input with both bars at 50%
C12_Witness ==
  /\ call.fn = "updateNetwork" /\ call.done
  /\ call.args.pixels = << One, 0, 0, 0 >>
  /\ call.result.chart[1].width = 50
  /\ Len(call.result.forward.preActivations) = 2

\* the indices in result.selected of the edges of 0-based target t
EdgesOf(selected, t) == { i \in 1 .. Len(selected) : selected[i].targetIndex = t }

\* the 0-based columns of a row that hold a finite weight: the candidates
FiniteColumns(row) == { s \in 0 .. (Len(row) - 1) : IsFinite(row[s + 1]) }

\* the candidates of target t that were not returned
NotReturned(selected, row, t) ==
  { s \in FiniteColumns(row) :
      \A i \in EdgesOf(selected, t) : selected[i].sourceIndex # s }

FindReturned == call.fn = "findImportantConnections" /\ call.done
CallRows == call.args.layer.weights

\* C13: findImportantConnections returns at most min(limit, inputWidth) edges
\* per target neuron; every returned edge is a candidate of its target, and
\* its |weight| is >= the |weight| of every candidate of that target that was
\* not returned.
C13_TopEdgesPerTarget ==
  FindReturned =>
    /\ \A i \in 1 .. Len(call.result.selected) :
         /\ call.result.selected[i].targetIndex \in 0 .. (Len(CallRows) - 1)
         /\ call.result.selected[i].sourceIndex \in
              FiniteColumns(CallRows[call.result.selected[i].targetIndex + 1])
         /\ call.result.selected[i].weight =
              CallRows[call.result.selected[i].targetIndex + 1]
                      [call.result.selected[i].sourceIndex + 1]
    /\ \A t \in 0 .. (Len(CallRows) - 1) :
         /\ Cardinality(EdgesOf(call.result.selected, t))
              <= Min(call.args.limit, Len(CallRows[t + 1]))
         /\ \A i \in EdgesOf(call.result.selected, t) :
              \A s \in NotReturned(call.result.selected, CallRows[t + 1], t) :
                FAbs(call.result.selected[i].weight) >= FAbs(CallRows[t + 1][s + 1])

\* C13 witness: limit 2 on the row (1, -2, 2): the two edges of magnitude 2
\* are returned, the edge of weight 1 is not
C13_Witness ==
  /\ FindReturned
  /\ CallRows = << << 1, -2, 2 >> >> /\ call.args.limit = 2
  /\ Len(call.result.selected) = 2
  /\ NotReturned(call.result.selected, CallRows[1], 0) = {0}

\* C14 as stated: every target neuron receives at least min(limit,
\* inputWidth) edges, whatever its weight row holds (NaN and infinite weights
\* included).
C14_EveryTargetGetsEdges ==
  FindReturned =>
    \A t \in 0 .. (Len(CallRows) - 1) :
      Cardinality(EdgesOf(call.result.selected, t))
        >= Min(call.args.limit, Len(CallRows[t + 1]))

\* C14 amended: every target neuron receives min(limit, f) edges, f being the
\* number of finite weights in its row: NaN and infinite weights are no
\* candidates, so the count is min(limit, inputWidth) only for an all-finite row.
C14_EveryTargetGetsFiniteEdges ==
  FindReturned =>
    \A t \in 0 .. (Len(CallRows) - 1) :
      /\ Cardinality(EdgesOf(call.result.selected, t))
           = Min(call.args.limit, Cardinality(FiniteColumns(CallRows[t + 1])))
      /\ (Cardinality(FiniteColumns(CallRows[t + 1])) = Len(CallRows[t + 1]) =>
            Cardinality(EdgesOf(call.result.selected, t))
              = Min(call.args.limit, Len(CallRows[t + 1])))

\* C14 witness: limit 2 on the rows (NaN, 2, Infinity) and (NaN, -1): each
\* target gets its one finite edge
C14_Witness ==
  /\ FindReturned
  /\ CallRows = << << NaN, 2, PInf >>, << NaN, -1 >> >> /\ call.args.limit = 2
  /\ Cardinality(EdgesOf(call.result.selected, 0)) = 1
  /\ Cardinality(EdgesOf(call.result.selected, 1)) = 1

\* C15: within one target, candidates of equal magnitude are ranked by
\* ascending source index: kept edges of equal magnitude appear in ascending
\* source order, and a candidate that was not kept never has the magnitude of
\* a kept edge with a larger source index.
C15_TiesInColumnOrder ==
  FindReturned =>
    \A t \in 0 .. (Len(CallRows) - 1) :
      /\ \A i, j \in EdgesOf(call.result.selected, t) :
           (i < j /\ FAbs(call.result.selected[i].weight) = FAbs(call.result.selected[j].weight))
             => call.result.selected[i].sourceIndex < call.result.selected[j].sourceIndex
      /\ \A i \in EdgesOf(call.result.selected, t) :
           \A s \in NotReturned(call.result.selected, CallRows[t + 1], t) :
             FAbs(CallRows[t + 1][s + 1]) = FAbs(call.result.selected[i].weight)
               => call.result.selected[i].sourceIndex < s

\* C15 witness: limit 2 on the row (2, -2, 2): columns 0 and 1 are kept in
\* that order, column 2 of the same magnitude is not
C15_Witness ==
  /\ FindReturned
  /\ CallRows = << << 2, -2, 2 >> >> /\ call.args.limit = 2
  /\ call.result.selected[1].sourceIndex = 0
  /\ call.result.selected[2].sourceIndex = 1

\* the magnitudes of all finite weights of a layer
FiniteMagnitudes(rows) ==
  UNION { { FAbs(rows[t][s + 1]) : s \in FiniteColumns(rows[t]) } : t \in 1 .. Len(rows) }

\* C16: maxAbsWeight is the largest |weight| over all finite weights of the
\* layer, selected or not, and 0 when the layer has no finite weight.
C16_MaxAbsWeightOverLayer ==
  FindReturned =>
    /\ (FiniteMagnitudes(CallRows) = {} => call.result.maxAbsWeight = 0)
    /\ (FiniteMagnitudes(CallRows) # {} =>
          /\ call.result.maxAbsWeight \in FiniteMagnitudes(CallRows)
          /\ \A m \in FiniteMagnitudes(CallRows) : call.result.maxAbsWeight >= m)

\* C16 witness: with limit 0 nothing is selected, and maxAbsWeight is the 3
\* of the second row
C16_Witness ==
  /\ FindReturned
  /\ call.args.limit = 0 /\ Len(call.result.selected) = 0
  /\ Len(CallRows) = 2 /\ CallRows[2] = << 3 >>
  /\ call.result.maxAbsWeight = 3

LayoutReturned == call.fn = "computeLayerPositions" /\ call.done

\* C17: computeLayerPositions returns exactly neuronCount positions for every
\* layer index and every neuronCount >= 0 (0, non-square counts and 784 on
\* layer 0 included).
C17_LayoutHasOnePositionPerNeuron ==
  LayoutReturned => Len(call.result) = call.args.neuronCount

\* C17 witness: 784 positions were returned for layer 0, in 28 columns
C17_Witness ==
  /\ LayoutReturned
  /\ call.args.layerIndex = 0
  /\ call.args.neuronCount = InputImageSide * InputImageSide
  /\ Len(call.result) = InputImageSide * InputImageSide
  /\ call.result[InputImageSide + 1].z = call.result[1].z
  /\ call.result[InputImageSide].z # call.result[1].z


\* ------------------------------------------- claims on the running program

\* what the build phase fixes in a layer mesh: instance count, stored
\* positions and instance transforms
StaticLayer(mesh) ==
  [count |-> mesh.count, positions |-> mesh.positions, matrices |-> mesh.matrices]

\* what the build phase fixes in a connection group
StaticGroup(group) ==
  [count |-> Len(group.colors), connections |-> group.connections,
   sourceLayer |-> group.sourceLayer, maxAbsWeight |-> group.maxAbsWeight,
   matrices |-> group.matrices]

StaticPart(vis) ==
  [layerMeshes |-> [k \in 1 .. Len(vis.layerMeshes) |-> StaticLayer(vis.layerMeshes[k])],
   connectionGroups |->
     [g \in 1 .. Len(vis.connectionGroups) |-> StaticGroup(vis.connectionGroups[g])]]

\* every colour attribute has one entry per instance and is flagged dirty
ColorsFlagged(vis) ==
  /\ \A k \in 1 .. Len(vis.layerMeshes) :
       /\ vis.layerMeshes[k].colorNeedsUpdate
       /\ Len(vis.layerMeshes[k].colors) = vis.layerMeshes[k].count
  /\ \A g \in 1 .. Len(vis.connectionGroups) :
       /\ vis.connectionGroups[g].colorNeedsUpdate
       /\ Len(vis.connectionGroups[g].colors) = Len(vis.connectionGroups[g].matrices)

\* C18: once the visualizer is built, whatever update calls have run, the
\* meshes, their instance counts and transforms, the stored positions and the
\* stored connections are those the build produced for the network; update
\* has only rewritten instance colours and flagged the colour attributes.
C18_UpdateOnlyRecolors ==
  visualizer.loopStarted =>
    /\ StaticPart(visualizer) = StaticPart(NetworkVisualizerNew(mlp, TRUE))
    /\ ColorsFlagged(visualizer)

\* C18 witness: a frame callback's update has recoloured a neuron and a
\* connection of a built scene
C18_Witness ==
  /\ visualizer.loopStarted /\ lastAct = "frame" /\ ranNow = 1
  /\ \E k \in 1 .. Len(visualizer.layerMeshes) :
       \E i \in 1 .. Len(visualizer.layerMeshes[k].colors) :
         visualizer.layerMeshes[k].colors[i].kind = "pos"
  /\ \E g \in 1 .. Len(visualizer.connectionGroups) :
       \E i \in 1 .. Len(visualizer.connectionGroups[g].colors) :
         visualizer.connectionGroups[g].colors[i].kind \in {"pos", "neg"}

\* C19: a viewport resize changes only the renderer size and the camera
\* projection: in a step that resizes an existing renderer no forward pass
\* and no update runs, instance colours and transforms, the chart and the
\* grid stay as they are, and the pending-change flag and the outstanding
\* frame callbacks are neither set nor cleared.
C19_ResizeOnlyTouchesRenderer ==
  [][(renderer.created /\ renderer' # renderer) =>
       /\ \E size \in WindowSizes :
            /\ renderer'.width = size.width /\ renderer'.height = size.height
            /\ renderer'.aspect = (size.width * One) \div size.height
            /\ renderer'.projectionAspect = renderer'.aspect
       /\ UNCHANGED << visualizer, forward, lastInput, chart, mlp, values,
                       pendingChange, rafQueue, lastAct, ranNow, onChange, pc >>]_vars

\* C19 witness: the window was resized to 600 x 800 while a paint edit was
\* waiting for its frame callback and after an update had coloured the scene
C19_Witness ==
  /\ renderer.created /\ renderer.width = 600 /\ renderer.height = 800
  /\ pendingChange /\ rafQueue = 1 /\ values # lastInput
  /\ visualizer.loopStarted /\ ~forward.threw

\* the vectors of the last forward result, and what updateNetwork displays
ActualActivations == Vectors(forward, forward.activations)
DisplayActivations == << lastInput >> \o SubSeq(ActualActivations, 2, Len(ActualActivations))

\* C20: after every update, for each layer, the input layer included, each
\* neuron instance is coloured from its displayed value at an intensity of
\* |value| divided by the layer's largest absolute actual activation (when
\* that maximum is above the floor), never by a divisor taken elsewhere.
C20_NodeIntensityUsesLayerMaximum ==
  (visualizer.loopStarted /\ ~forward.threw) =>
    \A k \in 1 .. Len(visualizer.layerMeshes) :
      (k <= Len(ActualActivations) /\ FGt(MaxAbsValue(ActualActivations[k]), 0)) =>
        \A i \in 1 .. Len(visualizer.layerMeshes[k].colors) :
          i <= Len(DisplayActivations[k]) =>
            visualizer.layerMeshes[k].colors[i] =
              ColorOf(DisplayActivations[k][i], MaxAbsValue(ActualActivations[k]),
                      NodeIdleThreshold)


\* --------------------------------------------- claims on connection colours

\* the activation at the source end of a rendered connection (0 when the
\* source layer's vector has no such entry)
SourceActivation(connection, sourceValues) ==
  IF connection.sourceIndex < Len(sourceValues)
  THEN sourceValues[connection.sourceIndex + 1] ELSE 0

\* sourceActivation x edgeWeight of the i-th rendered connection of a group
ContributionOf(group, i) ==
  FMul(SourceActivation(group.connections[i], ActualActivations[group.sourceLayer + 1]),
       group.connections[i].weight)

\* the magnitudes of a group's contributions that compare (NaN never does)
ContributionMagnitudes(group) ==
  { FAbs(ContributionOf(group, i)) : i \in { j \in 1 .. Len(group.connections) :
                                              ~IsNaN(ContributionOf(group, j)) } }

\* the largest of them, 0 when there is none
MaxContribution(group) ==
  IF ContributionMagnitudes(group) = {} THEN 0
  ELSE CHOOSE m \in ContributionMagnitudes(group) :
         \A x \in ContributionMagnitudes(group) : ~FGt(x, m)

\* the groups the last update recoloured
Recoloured(g) ==
  visualizer.connectionGroups[g].sourceLayer < Len(ActualActivations)

\* every connection is coloured from its contribution at the recorded divisor
ColouredFromContributions(group) ==
  \A i \in 1 .. Len(group.colors) :
    group.colors[i] = ColorOf(ContributionOf(group, i), group.lastScale,
                              ConnectionIdleThreshold)

\* C21 as stated: in every update each rendered connection's value is
\* sourceActivation x edgeWeight; the divisor of a transition is the largest
\* absolute contribution of its rendered connections in this update, or, when
\* that is ~0, the transition's static maxAbsWeight; so it is strictly positive.
C21_ConnectionDivisor ==
  (visualizer.loopStarted /\ ~forward.threw) =>
    \A g \in 1 .. Len(visualizer.connectionGroups) :
      Recoloured(g) =>
        /\ ColouredFromContributions(visualizer.connectionGroups[g])
        /\ visualizer.connectionGroups[g].lastScale =
             (IF FGt(MaxContribution(visualizer.connectionGroups[g]), 0)
              THEN MaxContribution(visualizer.connectionGroups[g])
              ELSE visualizer.connectionGroups[g].maxAbsWeight * One)
        /\ FGt(visualizer.connectionGroups[g].lastScale, 0)

\* C21 amended: the same, with the divisor 1 in place of a static
\* maxAbsWeight of 0 (a transition whose rendered weights are all 0).
C21_ConnectionDivisorOrOne ==
  (visualizer.loopStarted /\ ~forward.threw) =>
    \A g \in 1 .. Len(visualizer.connectionGroups) :
      Recoloured(g) =>
        /\ ColouredFromContributions(visualizer.connectionGroups[g])
        /\ visualizer.connectionGroups[g].lastScale =
             (IF FGt(MaxContribution(visualizer.connectionGroups[g]), 0)
              THEN MaxContribution(visualizer.connectionGroups[g])
              ELSE IF visualizer.connectionGroups[g].maxAbsWeight > 0
              THEN visualizer.connectionGroups[g].maxAbsWeight * One
              ELSE One)
        /\ FGt(visualizer.connectionGroups[g].lastScale, 0)

\* C21 witness: after an update, one transition is scaled by its largest
\* contribution 0.55 and has a coloured connection
C21_Witness ==
  /\ visualizer.loopStarted /\ ~forward.threw
  /\ \E g \in 1 .. Len(visualizer.connectionGroups) :
       /\ visualizer.connectionGroups[g].lastScale = 55
       /\ MaxContribution(visualizer.connectionGroups[g]) = 55
       /\ \E i \in 1 .. Len(visualizer.connectionGroups[g].colors) :
            visualizer.connectionGroups[g].colors[i].kind \in {"pos", "neg"}


\* ------------------------------------------------ claims on the DrawingGrid

\* the buffer has rows x cols entries, each in [0, 1]
BufferInRange(buffer) ==
  /\ Len(buffer) = NumCells
  /\ \A i \in 1 .. Len(buffer) : buffer[i] >= 0 /\ buffer[i] <= One

\* C26: through every draw, erase and clear the buffer keeps its length
\* rows x cols and every value stays in [0, 1]; and a paintCell call that
\* leaves the value unchanged (a draw on a cell at 1, an erase on a cell at 0)
\* registers no frame callback, sets no flag and runs no recompute.
C26_BufferInRangeAndNoIdleSchedule ==
  [][/\ BufferInRange(values) /\ BufferInRange(values')
     /\ (paints' = paints + 1 /\ values' = values) =>
          /\ rafQueue' = rafQueue /\ pendingChange' = pendingChange
          /\ ranNow' = 0
          /\ UNCHANGED << forward, visualizer, lastInput >>]_vars

\* C26 witness: three paintCell calls were made, the cell is at 1 and only
\* two of the calls changed a value and share the one outstanding callback
C26_Witness ==
  /\ paints = 3 /\ coalesced = 2 /\ drained = 0 /\ lastAct = "pointer"
  /\ values = [i \in 1 .. NumCells |-> IF i = 1 THEN One ELSE 0]
  /\ rafQueue = 1 /\ pendingChange

\* C27: pendingChange is true exactly when one frame callback registered by
\* scheduleChange is outstanding, and never more than one is outstanding; the
\* callback clears the flag before it calls the change handler, so the flag
\* is clear again whatever the handler does and the next edit registers a
\* new callback.
C27_FlagMeansOneCallback ==
  /\ rafQueue \in {0, 1}
  /\ pendingChange <=> (rafQueue = 1)

\* C27 witness: a frame callback's handler threw (forward fails for the
\* loaded network) and a later edit has registered a new callback
C27_Witness ==
  /\ failure = "forward" /\ onChange
  /\ drained >= 1 /\ coalesced >= 1 /\ lastAct = "pointer"
  /\ pendingChange /\ rafQueue = 1

\* C28: at most one recompute runs per change and per frame interval: a
\* reset click causes exactly one recompute, and a reset click made while a
\* paint callback is outstanding has not left that callback outstanding to
\* recompute again at the frame.
C28_OneRecomputePerReset ==
  lastAct = "reset" => /\ ranNow = 1
                       /\ rafQueue = 0


\* ------------------------------------------------------------ i18n module

\* the calls of switchLanguage and initI18n looked at
MaxLoads == 3

\* the languages with a translation document under assets/i18n
Languages == {"en", "de"}

\* what localStorage.getItem('preferredLanguage') can return at page load
StoredPreferences == {"null"} \cup Languages

\* lang || 'en'
OrEnglish(lang) == IF lang = "null" THEN "en" ELSE lang

\* nothing returned yet
NoSnapshot ==
  [currentLanguage |-> "none", translations |-> "none", lang |-> "none",
   preferredLanguage |-> "none"]

\* a call whose initI18n(lang) has reached its first await: the fetch of
\* ./assets/i18n/${currentLanguage}.json, with currentLanguage just set to lang
NewLoad(kind, lang) ==
  [kind |-> kind, lang |-> lang, stage |-> "fetch", url |-> lang,
   started |-> << lang >>, failures |-> 0, returned |-> NoSnapshot, dispatched |-> 0]

\* a switchLanguage(lang) call that returned at once
Returned(lang) ==
  [kind |-> "switch", lang |-> lang, stage |-> "returned", url |-> "none",
   started |-> << >>, failures |-> 0, returned |-> NoSnapshot, dispatched |-> 0]

\* the DOMContentLoaded listener of the i18n module: initI18n(savedLanguage)
\* up to its first await, then the click listener of the toggle button
I18nDOMContentLoaded ==
  /\ ~listening
  /\ listening' = TRUE
  /\ currentLanguage' = OrEnglish(preferredLanguage)
  /\ loads' = Append(loads, NewLoad("init", OrEnglish(preferredLanguage)))
  /\ UNCHANGED << translations, documentLang, preferredLanguage, events, programVars, call >>

\* variant of switchLanguage without its first line
SameLanguageIgnored(lang) == FALSE

\* if (lang === currentLanguage) return
SameLanguage(lang) == lang = currentLanguage

\* switchLanguage(lang) up to its first await
SwitchLanguage(lang) ==
  /\ Len(loads) < MaxLoads
  /\ IF SameLanguage(lang)
     THEN /\ loads' = Append(loads, Returned(lang))
          /\ UNCHANGED currentLanguage
     ELSE /\ currentLanguage' = lang
          /\ loads' = Append(loads, NewLoad("switch", lang))
  /\ UNCHANGED << translations, documentLang, preferredLanguage, listening, events,
                  programVars, call >>

\* a click on the language toggle button
ToggleClick ==
  /\ listening
  /\ SwitchLanguage(IF currentLanguage = "en" THEN "de" ELSE "en")

\* window.i18n.switchLanguage(lang) called by another script of the page
SwitchLanguageCall ==
  /\ listening
  /\ \E lang \in Languages : SwitchLanguage(lang)

\* the catch block of initI18n in call i: initI18n('en') up to its first
\* await when currentLanguage is not 'en', otherwise the error is rethrown
Catch(i) ==
  /\ IF currentLanguage # "en"
     THEN /\ currentLanguage' = "en"
          /\ loads' = [loads EXCEPT ![i].failures = @ + 1, ![i].stage = "fetch",
                                    ![i].url = "en", ![i].started = Append(@, "en")]
     ELSE /\ loads' = [loads EXCEPT ![i].failures = @ + 1, ![i].stage = "failed"]
          /\ UNCHANGED currentLanguage
  /\ UNCHANGED << translations, documentLang, preferredLanguage, events >>

\* the fetch of call i settles: a response with ok set, or a rejection or a
\* response without ok
FetchSettles ==
  \E i \in 1 .. Len(loads), ok \in BOOLEAN :
    /\ loads[i].stage = "fetch"
    /\ IF ok
       THEN /\ loads' = [loads EXCEPT ![i].stage = "json"]
            /\ UNCHANGED << currentLanguage, translations, documentLang,
                            preferredLanguage, events >>
       ELSE Catch(i)
    /\ UNCHANGED << listening, programVars, call >>

\* variant of initI18n that writes the language it fetched to <html lang>
LangWrittenFromUrl(i) == loads[i].url

\* document.documentElement.lang = currentLanguage
LangWritten(i) == currentLanguage

\* what initI18n leaves when call i returns its translations
Snapshot(i) ==
  [currentLanguage |-> currentLanguage, translations |-> loads[i].url,
   lang |-> LangWritten(i), preferredLanguage |-> currentLanguage]

\* the 'languageChanged' event switchLanguage dispatches
LanguageChanged(i) ==
  [language |-> loads[i].lang, current |-> currentLanguage, by |-> i]

\* response.json() of call i resolves: translations, <html lang> and the
\* stored preference are written and initI18n returns; a switchLanguage call
\* awaiting it then dispatches its event in the same run of the microtask queue
Returns18n(i) ==
  /\ translations' = loads[i].url
  /\ documentLang' = LangWritten(i)
  /\ preferredLanguage' = currentLanguage
  /\ loads' = [loads EXCEPT ![i].stage = "done", ![i].returned = Snapshot(i),
                            ![i].dispatched = IF loads[i].kind = "switch" THEN 1 ELSE 0]
  /\ events' = IF loads[i].kind = "switch"
               THEN Append(events, LanguageChanged(i))
               ELSE events
  /\ UNCHANGED currentLanguage

\* response.json() of call i settles: the parsed document, or a rejection
JsonSettles ==
  \E i \in 1 .. Len(loads), ok \in BOOLEAN :
    /\ loads[i].stage = "json"
    /\ IF ok THEN Returns18n(i) ELSE Catch(i)
    /\ UNCHANGED << listening, programVars, call >>

\* the page before its scripts' DOMContentLoaded listeners ran
I18nInit ==
  /\ ProgramInit
  /\ call = NoCall
  /\ I18nLoaded
  /\ preferredLanguage \in StoredPreferences

I18nNext ==
  \/ I18nDOMContentLoaded
  \/ ToggleClick
  \/ SwitchLanguageCall
  \/ FetchSettles
  \/ JsonSettles

I18nSpec == I18nInit /\ [][I18nNext]_vars

\* the calls with a fetch or a response.json() outstanding
Pending == { i \in 1 .. Len(loads) : loads[i].stage \in {"fetch", "json"} }

\* call i fell back to English after every failed load of another language,
\* and stopped after a failed load of English
FallsBackOnce(i) ==
  \A k \in 1 .. loads[i].failures :
    IF loads[i].started[k] # "en"
    THEN Len(loads[i].started) > k /\ loads[i].started[k + 1] = "en"
    ELSE Len(loads[i].started) = k /\ loads[i].stage = "failed"

\* C22: when the load of a non-English language fails, initI18n loads
\* English instead, and when that succeeds the current language is 'en' and
\* the English translations are installed; when the load of English fails,
\* initI18n fails and starts no further load.
C22_FallbackToEnglishOnce ==
  \A i \in 1 .. Len(loads) :
    /\ FallsBackOnce(i)
    /\ (loads[i].stage = "done" /\ loads[i].failures > 0) =>
         /\ loads[i].returned.currentLanguage = "en"
         /\ loads[i].returned.translations = "en"

\* C23: whenever a call of initI18n returns its translations, the current
\* language, the <html lang> attribute and the stored 'preferredLanguage'
\* hold the same language code.
C23_IndicatorsAgreeOnReturn ==
  [][\A i \in 1 .. Len(loads) :
       (loads[i].stage # "done" /\ loads'[i].stage = "done") =>
         /\ documentLang' = currentLanguage'
         /\ preferredLanguage' = currentLanguage']_vars

\* C23 witness: a call returned the document of one language while the
\* current language was another, and the three indicators name the latter
C23_Witness ==
  \E i \in 1 .. Len(loads) :
    /\ loads[i].stage = "done"
    /\ loads[i].returned.translations # loads[i].returned.currentLanguage
    /\ translations = loads[i].url
    /\ documentLang = currentLanguage
    /\ preferredLanguage = currentLanguage
    /\ documentLang # translations

\* the 'languageChanged' events call i dispatched
EventsBy(i) == { k \in 1 .. Len(events) : events[k].by = i }

\* C24: switchLanguage(lang) with lang the current language starts no load
\* and dispatches no event; any other call dispatches exactly one
\* 'languageChanged' event, when the load it started has finished and not
\* before, and none when that load failed.
C24_OneEventAfterLoad ==
  /\ [](\A i \in 1 .. Len(loads) :
          loads[i].kind = "switch" =>
            /\ loads[i].stage = "returned" => loads[i].started = << >>
            /\ Cardinality(EventsBy(i)) = (IF loads[i].stage = "done" THEN 1 ELSE 0))
  /\ [][(/\ Len(loads') = Len(loads) + 1
         /\ loads'[Len(loads')].kind = "switch"
         /\ loads'[Len(loads')].lang = currentLanguage) =>
          /\ loads'[Len(loads')].stage = "returned"
          /\ UNCHANGED << currentLanguage, translations, documentLang,
                          preferredLanguage, events >>]_vars

\* C24 witness: one switchLanguage call returned at once, another loaded
\* English after its own language failed and dispatched its one event
C24_Witness ==
  /\ \E i \in 1 .. Len(loads) : loads[i].stage = "returned" /\ EventsBy(i) = {}
  /\ \E j \in 1 .. Len(loads) :
       /\ loads[j].kind = "switch" /\ loads[j].stage = "done" /\ loads[j].failures = 1
       /\ Cardinality(EventsBy(j)) = 1
  /\ \E k \in 1 .. Len(loads) : loads[k].kind = "init" /\ loads[k].stage = "failed"

\* C29: for any interleaving of toggle clicks and fetch completions, once
\* no load is pending the installed translations are those of the current
\* language (stated for the runs in which every fetch and every
\* response.json() succeeded).
C29_TranslationsMatchLanguage ==
  (/\ loads # << >>
   /\ Pending = {}
   /\ \A i \in 1 .. Len(loads) : loads[i].failures = 0) =>
     translations = currentLanguage

\* C30: the language in the detail of every 'languageChanged' event is the
\* current language at the moment of its dispatch.
C30_EventCarriesCurrentLanguage ==
  \A k \in 1 .. Len(events) : events[k].language = events[k].current

\* the value the dotted key names in the document's own members
RECURSIVE Named(_, _, _)
Named(value, keys, k) ==
  IF k > Len(keys) THEN [found |-> TRUE, value |-> value]
  ELSE IF /\ value.type = "object" /\ Len(keys[k]) = 1
          /\ keys[k][1] \in DOMAIN value.members
       THEN Named(value.members[keys[k][1]], keys, k + 1)
       ELSE [found |-> FALSE, value |-> value]

\* the string with the supplied parameters filled in and every other
\* placeholder left as it is
RECURSIVE Filled18n(_, _, _)
Filled18n(tokens, k, params) ==
  IF k > Len(tokens) THEN << >>
  ELSE IF /\ tokens[k] = "{" /\ k + 2 <= Len(tokens) /\ tokens[k + 2] = "}"
          /\ tokens[k + 1] \in DOMAIN params
          /\ params[tokens[k + 1]].type # "undefined"
       THEN << params[tokens[k + 1]].text >> \o Filled18n(tokens, k + 3, params)
       ELSE << tokens[k] >> \o Filled18n(tokens, k + 1, params)

\* C25: t(key) returns the key itself when a segment of the dotted path is
\* missing from the loaded translations or the value reached is not a
\* string, and otherwise the translation with every placeholder whose
\* parameter is not supplied left verbatim.
C25_KeyOrTranslation ==
  (call.fn = "t" /\ call.done) =>
    call.result =
      (IF /\ Named(call.args.doc, Split(call.args.key), 1).found
          /\ Named(call.args.doc, Split(call.args.key), 1).value.type = "string"
       THEN Filled18n(Named(call.args.doc, Split(call.args.key), 1).value.tokens, 1,
                      call.args.params)
       ELSE call.args.key)

====
